---- MODULE Spec2Model ----
(***************************************************************************)
(* Model of the sensor-label normalization and port-disambiguation         *)
(* pipeline of ag-research-backend/app.py: the port resolver, the device   *)
(* sensor mapper, the unit converters, the table row builder, the summary  *)
(* extractors and the two cache wrappers around them.                      *)
(*                                                                         *)
(* Conventions.                                                            *)
(*  - A Python str is a sequence of one-character strings, so that lower(),*)
(*    title(), the `in` substring test and the port regex are computed.    *)
(*  - A Python float is a fixed-point integer: reading values are in       *)
(*    thousandths, percent and Fahrenheit results in tenths, inches in     *)
(*    thousandths.                                                         *)
(*  - A JSON/Python value is a record [k |-> kind, n |-> number].          *)
(*  - A call that can raise returns [exc |-> name, val |-> result], with   *)
(*    exc = "none" when it returns normally.                               *)
(*  - Cache files are written reliably (open/json.dump of a parsed JSON    *)
(*    payload); a file is unreadable only through its content.             *)
(***************************************************************************)
EXTENDS Integers, Sequences, FiniteSets, TLC

\* ------------------------------------------------------------------ bounds
MaxSeries == 5        \* series per label in the payloads of SpecMapper
MaxReadings == 2      \* readings per series
MaxFields == 2        \* direct port fields present on one series (SpecPort)
MaxClock == 90        \* seconds of wall-clock the cache specifications cover
MaxCalls == 2         \* handler invocations in Spec and SpecSingle
MaxFaults == 1        \* irregular upstream responses in Spec
MaxRows == 3          \* rows in the lists handed to __latest_row (SpecRows)
ConvSpan == 60        \* thousandths on either side of 1 handed to _to_pct (SpecConv)

\* ------------------------------------------------------- program constants
CACHE_TTL_MINUTES == 1
RATE_LIMIT_SECONDS == 60
max_retries == 3

\* ----------------------------------------------------------------- strings
Lowers == <<"a","b","c","d","e","f","g","h","i","j","k","l","m","n","o","p","q","r","s","t","u","v","w","x","y","z">>
Uppers == <<"A","B","C","D","E","F","G","H","I","J","K","L","M","N","O","P","Q","R","S","T","U","V","W","X","Y","Z">>
Digits == <<"0","1","2","3","4","5","6","7","8","9">>

LowerSet == {Lowers[k] : k \in 1..26}
UpperSet == {Uppers[k] : k \in 1..26}
DigitSet == {Digits[k] : k \in 1..10}
Chars == LowerSet \cup UpperSet \cup DigitSet \cup {" ", "@", "(", ")", ":", "#", "."}

IsLetter(c) == c \in LowerSet \/ c \in UpperSet
IsDigit(c) == c \in DigitSet
IsSpace(c) == c = " "

LowerTab == [c \in Chars |-> IF c \in UpperSet THEN Lowers[CHOOSE k \in 1..26 : Uppers[k] = c] ELSE c]
UpperTab == [c \in Chars |-> IF c \in LowerSet THEN Uppers[CHOOSE k \in 1..26 : Lowers[k] = c] ELSE c]
DigitTab == [c \in DigitSet |-> CHOOSE d \in 0..9 : Digits[d + 1] = c]

\* str.lower()
Lower(s) == [i \in 1..Len(s) |-> LowerTab[s[i]]]

\* str.title(): the first letter of every run of letters is upper-cased,
\* every other letter lower-cased
Title(s) == [i \in 1..Len(s) |->
               IF i = 1 \/ ~IsLetter(s[i-1]) THEN UpperTab[s[i]] ELSE LowerTab[s[i]]]

\* t in s
Contains(s, t) == \E i \in 1..(Len(s) - Len(t) + 1) : SubSeq(s, i, i + Len(t) - 1) = t

\* any(tok in s for tok in toks)
ContainsAny(s, toks) == \E k \in 1..Len(toks) : Contains(s, toks[k])

\* label tokens
tok_water_content == <<"w","a","t","e","r"," ","c","o","n","t","e","n","t">>
tok_vol_water_content == <<"v","o","l","u","m","e","t","r","i","c"," ","w","a","t","e","r"," ","c","o","n","t","e","n","t">>
tok_soil_vwc == <<"s","o","i","l"," ","v","w","c">>
tok_vwc == <<"v","w","c">>
tok_matric_potential == <<"m","a","t","r","i","c"," ","p","o","t","e","n","t","i","a","l">>
tok_water_potential == <<"w","a","t","e","r"," ","p","o","t","e","n","t","i","a","l">>
tok_soil_water_potential == <<"s","o","i","l"," ","w","a","t","e","r"," ","p","o","t","e","n","t","i","a","l">>
tok_soil_temperature == <<"s","o","i","l"," ","t","e","m","p","e","r","a","t","u","r","e">>
tok_electrical_conductivity == <<"e","l","e","c","t","r","i","c","a","l"," ","c","o","n","d","u","c","t","i","v","i","t","y">>
tok_saturation_extract_ec == <<"s","a","t","u","r","a","t","i","o","n"," ","e","x","t","r","a","c","t"," ","e","c">>
tok_ec == <<"e","c">>

_WC_LABEL_TOKENS == <<tok_water_content, tok_vol_water_content, tok_soil_vwc, tok_vwc>>
_MP_LABEL_TOKENS == <<tok_matric_potential, tok_water_potential, tok_soil_water_potential>>

\* channel names written by the device mapper
K_VWC10_P1 == <<"T","E","R","O","S"," ","1","2"," ","S","o","i","l"," ","V","W","C"," ","@"," ","1","0","c","m"," ","(","P","1",")">>
K_VWC20_P2 == <<"T","E","R","O","S"," ","1","2"," ","S","o","i","l"," ","V","W","C"," ","@"," ","2","0","c","m"," ","(","P","2",")">>
K_VWC10_P4 == <<"T","E","R","O","S"," ","1","2"," ","S","o","i","l"," ","V","W","C"," ","@"," ","1","0","c","m"," ","(","P","4",")">>
K_VWC20_P5 == <<"T","E","R","O","S"," ","1","2"," ","S","o","i","l"," ","V","W","C"," ","@"," ","2","0","c","m"," ","(","P","5",")">>
K_VWC10 == <<"T","E","R","O","S"," ","1","2"," ","S","o","i","l"," ","V","W","C"," ","@"," ","1","0","c","m">>
K_VWC20 == <<"T","E","R","O","S"," ","1","2"," ","S","o","i","l"," ","V","W","C"," ","@"," ","2","0","c","m">>
K_T10_P1 == <<"T","E","R","O","S"," ","1","2"," ","S","o","i","l"," ","T","e","m","p","e","r","a","t","u","r","e"," ","@"," ","1","0","c","m"," ","(","P","1",")">>
K_T20_P2 == <<"T","E","R","O","S"," ","1","2"," ","S","o","i","l"," ","T","e","m","p","e","r","a","t","u","r","e"," ","@"," ","2","0","c","m"," ","(","P","2",")">>
K_T10_P4 == <<"T","E","R","O","S"," ","1","2"," ","S","o","i","l"," ","T","e","m","p","e","r","a","t","u","r","e"," ","@"," ","1","0","c","m"," ","(","P","4",")">>
K_T20_P5 == <<"T","E","R","O","S"," ","1","2"," ","S","o","i","l"," ","T","e","m","p","e","r","a","t","u","r","e"," ","@"," ","2","0","c","m"," ","(","P","5",")">>
K_EC10_P1 == <<"T","E","R","O","S"," ","1","2"," ","E","l","e","c","t","r","i","c","a","l"," ","C","o","n","d","u","c","t","i","v","i","t","y"," ","@"," ","1","0","c","m"," ","(","P","1",")">>
K_EC20_P2 == <<"T","E","R","O","S"," ","1","2"," ","E","l","e","c","t","r","i","c","a","l"," ","C","o","n","d","u","c","t","i","v","i","t","y"," ","@"," ","2","0","c","m"," ","(","P","2",")">>
K_EC10_P4 == <<"T","E","R","O","S"," ","1","2"," ","E","l","e","c","t","r","i","c","a","l"," ","C","o","n","d","u","c","t","i","v","i","t","y"," ","@"," ","1","0","c","m"," ","(","P","4",")">>
K_EC20_P5 == <<"T","E","R","O","S"," ","1","2"," ","E","l","e","c","t","r","i","c","a","l"," ","C","o","n","d","u","c","t","i","v","i","t","y"," ","@"," ","2","0","c","m"," ","(","P","5",")">>
K_MP_P3 == <<"T","E","R","O","S"," ","2","1"," ","M","a","t","r","i","c"," ","P","o","t","e","n","t","i","a","l"," ","(","P","3",")">>
K_MP_P6 == <<"T","E","R","O","S"," ","2","1"," ","M","a","t","r","i","c"," ","P","o","t","e","n","t","i","a","l"," ","(","P","6",")">>
K_WaterContent == <<"W","a","t","e","r"," ","C","o","n","t","e","n","t">>
K_SoilTemperature == <<"S","o","i","l"," ","T","e","m","p","e","r","a","t","u","r","e">>
K_ElectricalConductivity == <<"E","l","e","c","t","r","i","c","a","l"," ","C","o","n","d","u","c","t","i","v","i","t","y">>
K_MatricPotential == <<"M","a","t","r","i","c"," ","P","o","t","e","n","t","i","a","l">>
K_AirTemperature == <<"A","i","r"," ","T","e","m","p","e","r","a","t","u","r","e">>
K_Precipitation == <<"P","r","e","c","i","p","i","t","a","t","i","o","n">>
K_SolarRadiation == <<"S","o","l","a","r"," ","R","a","d","i","a","t","i","o","n">>
K_VPD == <<"V","P","D">>

\* further upstream labels and label texts used as inputs
L_VWC == <<"V","W","C">>
L_SoilWaterPotentialECSensor == <<"S","o","i","l"," ","W","a","t","e","r"," ","P","o","t","e","n","t","i","a","l"," ","E","C"," ","S","e","n","s","o","r">>
L_BatteryPercent == <<"B","a","t","t","e","r","y"," ","P","e","r","c","e","n","t">>
T_Port1 == <<"P","o","r","t"," ","1">>
T_ParenPort2 == <<"(","P","o","r","t"," ","2",")">>
T_p3 == <<"s","e","n","s","o","r"," ","p",":","3">>
T_Ch4 == <<"c","h"," ","4">>
T_10cm == <<"1","0"," ","c","m">>
T_Plain == <<"T","E","R","O","S">>

\* ------------------------------------------------------------------ values
\* JSON / Python values that occur as reading values and port fields.
\*   null    None (also: key missing, read with .get)
\*   num     a finite number, n in thousandths
\*   intstr  a string holding an integer literal ("2"), n in thousandths
\*   numstr  a string holding a decimal literal ("0.30"), n in thousandths
\*   bad     a string that is not a number ("bad", a status text)
\*   nan     the float NaN
\*   inf     the float Infinity
\*   big     an integer beyond the float range (a JSON literal of 400 digits)
Null == [k |-> "null", n |-> 0]
Num(n) == [k |-> "num", n |-> n]
IntStr(n) == [k |-> "intstr", n |-> n]
NumStr(n) == [k |-> "numstr", n |-> n]
Bad == [k |-> "bad", n |-> 0]
NaN == [k |-> "nan", n |-> 0]
Inf == [k |-> "inf", n |-> 0]
Big == [k |-> "big", n |-> 0]
\* a Python int (a resolved port)
PyIntV(n) == [k |-> "int", n |-> n]

Ok(v) == [exc |-> "none", val |-> v]
Raise(e) == [exc |-> e, val |-> Null]

\* F applied to the value of v: a local variable that is assigned once
With(v, F(_)) == CHOOSE r \in {F(x) : x \in {v}} : TRUE

\* float(v)
PyFloat(v) ==
  CASE v.k = "null" -> Raise("TypeError")
    [] v.k = "bad" -> Raise("ValueError")
    [] v.k \in {"num", "intstr", "numstr"} -> Ok(Num(v.n))
    [] v.k = "nan" -> Ok(NaN)
    [] v.k = "inf" -> Ok(Inf)
    [] v.k = "big" -> Raise("OverflowError")

\* int(v): truncates a number toward zero, parses an integer literal only
PyInt(v) ==
  CASE v.k = "null" -> Raise("TypeError")
    [] v.k \in {"bad", "numstr", "nan"} -> Raise("ValueError")
    [] v.k = "inf" -> Raise("OverflowError")
    [] v.k = "big" -> Ok(Big)
    [] v.k \in {"num", "intstr"} ->
         Ok(PyIntV(IF v.n >= 0 THEN v.n \div 1000 ELSE -((-v.n) \div 1000)))

\* isfinite(v) for a float v
isfinite(v) == v.k = "num"

\* round(x / d) to the nearest integer; at an exact decimal tie the binary
\* representation of the float decides, which `up` stands for
RoundDiv(x, d, up) ==
  LET a == IF x >= 0 THEN x ELSE -x
      q == a \div d
      r == a % d
      m == IF 2 * r > d \/ (2 * r = d /\ up) THEN q + 1 ELSE q
  IN IF x >= 0 THEN m ELSE -m

\* --------------------------------------------- helpers: ports & conversions
DirectKeys == <<"port", "port_num", "source_port", "channel", "port_number">>
LabelFields == <<"series_label", "label", "name", "sensor_name", "series_name">>

\* value of a maximal run of decimal digits starting at s[i]
RECURSIVE DigitRun(_, _, _)
DigitRun(s, i, acc) ==
  IF i <= Len(s) /\ IsDigit(s[i])
  THEN DigitRun(s, i + 1, acc * 10 + DigitTab[s[i]])
  ELSE acc

RECURSIVE SkipSpace(_, _)
SkipSpace(s, i) == IF i <= Len(s) /\ IsSpace(s[i]) THEN SkipSpace(s, i + 1) ELSE i

\* \s*[:#]?\s*(\d+) anchored at s[j]: the captured number, or -1
RegexTail(s, j) ==
  LET j1 == SkipSpace(s, j)
      j2 == IF j1 <= Len(s) /\ s[j1] \in {":", "#"} THEN j1 + 1 ELSE j1
      j3 == SkipSpace(s, j2)
  IN IF j3 <= Len(s) /\ IsDigit(s[j3]) THEN DigitRun(s, j3, 0) ELSE -1

\* (?:port|p)\s*[:#]?\s*(\d+), re.IGNORECASE, anchored at s[i]; lo is s
\* lower-cased.  The alternative "p" is tried when "port" does not lead to a
\* match.
RegexAt(s, lo, i) ==
  LET viaPort == IF i + 3 <= Len(s) /\ SubSeq(lo, i, i + 3) = <<"p", "o", "r", "t">>
                 THEN RegexTail(s, i + 4) ELSE -1
  IN IF viaPort >= 0 THEN viaPort
     ELSE IF lo[i] = "p" THEN RegexTail(s, i + 1) ELSE -1

\* the leftmost match from position i on
RECURSIVE RegexFrom(_, _, _)
RegexFrom(s, lo, i) ==
  IF i > Len(s) THEN -1
  ELSE LET r == RegexAt(s, lo, i)
       IN IF r >= 0 THEN r ELSE RegexFrom(s, lo, i + 1)

\* port_regex.search(s): group 1 of the leftmost match, or -1
port_regex_search(s) == RegexFrom(s, Lower(s), 1)

\* the loop over the direct numeric fields
RECURSIVE DirectScan(_, _)
DirectScan(series, i) ==
  IF i > Len(DirectKeys) THEN [found |-> FALSE, res |-> Ok(Null)]
  ELSE LET key == DirectKeys[i]
       IN IF key \in DOMAIN series.direct /\ series.direct[key] # Null
          THEN LET r == PyInt(series.direct[key])
               IN IF r.exc = "none" THEN [found |-> TRUE, res |-> r]
                  ELSE IF r.exc \in {"TypeError", "ValueError"}
                       THEN DirectScan(series, i + 1)
                       ELSE [found |-> TRUE, res |-> r]
          ELSE DirectScan(series, i + 1)

\* the loop over the label fields
RECURSIVE LabelScan(_, _)
LabelScan(series, i) ==
  IF i > Len(LabelFields) THEN Ok(Null)
  ELSE LET lf == LabelFields[i]
           val == IF lf \in DOMAIN series.labels THEN series.labels[lf]
                  ELSE [k |-> "none", s |-> <<>>]
           m == port_regex_search(val.s)
       IN IF val.k = "str" /\ m >= 0 THEN Ok(PyIntV(m))
          ELSE LabelScan(series, i + 1)

\* _series_port(series): direct numeric fields first, then the label fields
_series_port(series) ==
  LET d == DirectScan(series, 1)
  IN IF d.found THEN d.res ELSE LabelScan(series, 1)

\* The converters return [exc, val]: float() of an integer beyond the float
\* range raises OverflowError, which `except (TypeError, ValueError)` lets
\* through.
\* _to_pct(val): a fraction (<= 1) is scaled to percent; result in tenths
_to_pct(val) ==
  LET f == PyFloat(val)
  IN IF f.exc \in {"TypeError", "ValueError"} THEN Ok(Null)
     ELSE IF f.exc # "none" THEN f
     ELSE IF ~isfinite(f.val) THEN Ok(Null)
     ELSE IF f.val.n <= 1000 THEN Ok(Num(f.val.n))
     ELSE Ok(Num(RoundDiv(f.val.n, 100, TRUE)))

\* _to_f(c): v * 9/5 + 32, result in tenths
_to_f(c) ==
  LET f == PyFloat(c)
  IN IF f.exc \in {"TypeError", "ValueError"} THEN Ok(Null)
     ELSE IF f.exc # "none" THEN f
     ELSE IF ~isfinite(f.val) THEN Ok(Null)
     ELSE Ok(Num(RoundDiv(9 * f.val.n + 160000, 500, TRUE)))

\* _to_in(mm): v / 25.4, result in thousandths
_to_in(mm) ==
  LET f == PyFloat(mm)
  IN IF f.exc \in {"TypeError", "ValueError"} THEN Ok(Null)
     ELSE IF f.exc # "none" THEN f
     ELSE IF ~isfinite(f.val) THEN Ok(Null)
     ELSE Ok(Num(RoundDiv(10 * f.val.n, 254, TRUE)))

\* ------------------------------------------------------------ dictionaries
\* A dict is a function; d.get(k) of a missing key is the empty list here,
\* which is as falsy as None for every caller.
EmptyDict == <<>>
Get(d, key) == IF key \in DOMAIN d THEN d[key] ELSE <<>>
Put(d, key, v) == (key :> v) @@ d
\* d.setdefault(key, []).extend(v)
Extend(d, key, v) == Put(d, key, Get(d, key) \o v)

\* _series(data, key): data.get(key) or data.get(key.title()) or []
_series(data, key) ==
  IF Get(data, key) # <<>> THEN Get(data, key) ELSE Get(data, Title(key))

\* ------------------------------------------------- fetch & normalize (multi)
\* __label_is_wc(label), __label_is_mp(label)
__label_is_wc(label) == ContainsAny(Lower(label), _WC_LABEL_TOKENS)
__label_is_mp(label) == ContainsAny(Lower(label), _MP_LABEL_TOKENS)

\* the value coercion of __reading_list: float(v), the raw value when float()
\* raises TypeError or ValueError
Coerce(v) ==
  LET f == PyFloat(v)
  IN IF f.exc = "none" THEN f
     ELSE IF f.exc \in {"TypeError", "ValueError"} THEN Ok(v)
     ELSE f

\* __reading_list(series).  series.rk tells what series.get("readings", [])
\* yields: "absent" (the default []), "null" (None, not iterable) or "list".
__reading_list(series) ==
  CASE series.rk = "absent" -> Ok(<<>>)
    [] series.rk = "null" -> Raise("TypeError")
    [] series.rk = "list" ->
         IF \E j \in 1..Len(series.readings) : Coerce(series.readings[j].value).exc # "none"
         THEN Raise("OverflowError")
         ELSE Ok([j \in 1..Len(series.readings) |->
                    [time |-> series.readings[j].datetime,
                     value |-> Coerce(series.readings[j].value).val]])

\* The if-chain that selects the branch of the mapping loop for a label.
Family(label) ==
  LET label_lower == Lower(label)
  IN IF __label_is_wc(label) THEN "MOISTURE"
     ELSE IF Contains(label_lower, tok_soil_temperature) THEN "TEMPERATURE"
     ELSE IF Contains(label_lower, tok_electrical_conductivity)
             \/ Contains(label_lower, tok_saturation_extract_ec)
             \/ Contains(label_lower, tok_ec) THEN "CONDUCTIVITY"
     ELSE IF __label_is_mp(label) THEN "POTENTIAL"
     ELSE "OTHER"

\* a Water Content branch that also aliases the third series to the legacy
\* 10 cm channel
PlaceWC_AliasP4(sensors, i, readings) ==
  CASE i = 1 -> Put(Put(sensors, K_VWC10_P1, readings), K_VWC10, readings)
    [] i = 2 -> Put(Put(sensors, K_VWC20_P2, readings), K_VWC20, readings)
    [] i = 3 -> Put(Put(sensors, K_VWC10_P4, readings), K_VWC10, readings)
    [] i = 4 -> Put(sensors, K_VWC20_P5, readings)
    [] OTHER -> Extend(sensors, K_WaterContent, readings)

\* One step of `for i, series in enumerate(series_list)` of the Water Content
\* branch; i is the Python index plus one.
PlaceWC(sensors, i, readings) ==
  CASE i = 1 -> Put(Put(sensors, K_VWC10_P1, readings), K_VWC10, readings)
    [] i = 2 -> Put(Put(sensors, K_VWC20_P2, readings), K_VWC20, readings)
    [] i = 3 -> Put(sensors, K_VWC10_P4, readings)
    [] i = 4 -> Put(sensors, K_VWC20_P5, readings)
    [] OTHER -> Extend(sensors, K_WaterContent, readings)

PlaceTemp(sensors, i, readings) ==
  CASE i = 1 -> Put(sensors, K_T10_P1, readings)
    [] i = 2 -> Put(sensors, K_T20_P2, readings)
    [] i = 3 -> Put(sensors, K_T10_P4, readings)
    [] i = 4 -> Put(sensors, K_T20_P5, readings)
    [] OTHER -> Extend(sensors, K_SoilTemperature, readings)

PlaceEC(sensors, i, readings) ==
  CASE i = 1 -> Put(sensors, K_EC10_P1, readings)
    [] i = 2 -> Put(sensors, K_EC20_P2, readings)
    [] i = 3 -> Put(sensors, K_EC10_P4, readings)
    [] i = 4 -> Put(sensors, K_EC20_P5, readings)
    [] OTHER -> Extend(sensors, K_ElectricalConductivity, readings)

PlaceMP(sensors, i, readings) ==
  CASE i = 1 -> Put(sensors, K_MP_P3, readings)
    [] i = 2 -> Put(sensors, K_MP_P6, readings)
    [] OTHER -> Extend(sensors, K_MatricPotential, readings)

Place(family, sensors, i, readings) ==
  CASE family = "MOISTURE" -> PlaceWC(sensors, i, readings)
    [] family = "TEMPERATURE" -> PlaceTemp(sensors, i, readings)
    [] family = "CONDUCTIVITY" -> PlaceEC(sensors, i, readings)
    [] family = "POTENTIAL" -> PlaceMP(sensors, i, readings)

\* the inner loop of a port-mapped family, from series i on
RECURSIVE MapSeries(_, _, _, _)
MapSeries(family, sensors, series_list, i) ==
  IF i > Len(series_list) THEN Ok(sensors)
  ELSE With(__reading_list(series_list[i]), LAMBDA r :
         IF r.exc # "none" THEN [exc |-> r.exc, val |-> sensors]
         ELSE With(Place(family, sensors, i, r.val), LAMBDA placed :
                MapSeries(family, placed, series_list, i + 1)))

\* the default passthrough: readings.extend(__reading_list(series)) per series
RECURSIVE Passthrough(_, _, _)
Passthrough(readings, series_list, i) ==
  IF i > Len(series_list) THEN Ok(readings)
  ELSE With(__reading_list(series_list[i]), LAMBDA r :
         IF r.exc # "none" THEN [exc |-> r.exc, val |-> readings]
         ELSE With(readings \o r.val, LAMBDA extended :
                Passthrough(extended, series_list, i + 1)))

\* one iteration of `for label, series_list in data.items()`
MapLabel(sensors, label, series_list) ==
  IF Family(label) # "OTHER"
  THEN MapSeries(Family(label), sensors, series_list, 1)
  ELSE With(Passthrough(<<>>, series_list, 1), LAMBDA p :
         IF p.exc # "none" THEN [exc |-> p.exc, val |-> sensors]
         ELSE Ok(Put(sensors, label, p.val)))

\* the mapping loop of fetch_fresh_data_for over data.items(), from entry i on
RECURSIVE MapFrom(_, _, _)
MapFrom(sensors, data, i) ==
  IF i > Len(data) THEN Ok(sensors)
  ELSE With(MapLabel(sensors, data[i].label, data[i].series_list), LAMBDA m :
         IF m.exc # "none" THEN [exc |-> m.exc, val |-> EmptyDict]
         ELSE MapFrom(m.val, data, i + 1))

\* data = raw.get("data", {}); sensors = {}; the loop; return sensors
map_device(data) == MapFrom(EmptyDict, data, 1)

\* ------------------------------------------------------------ table builder
Min(S) == CHOOSE x \in S : \A y \in S : x <= y

\* float(s[i]["value"]) if ... s[i].get("value") is not None else None
FloatOrNone(s, i) ==
  IF s # <<>> /\ s[i].value # Null THEN PyFloat(s[i].value) ELSE Ok(Null)

\* a lookup that takes the value of the last reading whatever the index
ValueOrNone_last(s, i) == IF s # <<>> THEN s[Len(s)].value ELSE Null

\* s[i]["value"] if i < len(s) and s else None
ValueOrNone(s, i) == IF s # <<>> THEN s[i].value ELSE Null

\* the six series _build_table_rows selects, after the Water Content fallback
TableSeries(data) ==
  LET soil10_s == _series(data, K_VWC10)
      soil20_s == _series(data, K_VWC20)
      water_content == _series(data, K_WaterContent)
      fallback == soil10_s = <<>> /\ soil20_s = <<>> /\ water_content # <<>>
  IN [temp |-> _series(data, K_AirTemperature),
      precip |-> _series(data, K_Precipitation),
      solar |-> _series(data, K_SolarRadiation),
      vpd |-> _series(data, K_VPD),
      soil10 |-> IF fallback THEN water_content ELSE soil10_s,
      soil20 |-> IF fallback THEN <<>> ELSE soil20_s]

\* min(len(s) if s else len(base) for s in comp + [base])
min_len(comp, base) ==
  Min({IF comp[c] # <<>> THEN Len(comp[c]) ELSE Len(base) : c \in 1..Len(comp)} \cup {Len(base)})

\* the exception the body of `for i in range(min_len)` raises at (Python)
\* index i - 1, "none" when the row is appended: the six conversions run in
\* the order of the source and the first that raises ends the call
RowExc(t, i) ==
  LET conv == <<_to_f(ValueOrNone(t.temp, i)), _to_in(ValueOrNone(t.precip, i)),
                FloatOrNone(t.solar, i), FloatOrNone(t.vpd, i),
                _to_pct(ValueOrNone(t.soil10, i)), _to_pct(ValueOrNone(t.soil20, i))>>
      failed == {c \in 1..6 : conv[c].exc # "none"}
  IN IF failed = {} THEN "none" ELSE conv[Min(failed)].exc

\* _build_table_rows(data)
_build_table_rows(data) ==
  With(TableSeries(data), LAMBDA t :
  LET comp == <<t.temp, t.precip, t.solar, t.vpd, t.soil10, t.soil20>>
      bases == SelectSeq(comp, LAMBDA s : s # <<>>)
  IN IF bases = <<>> THEN Ok(<<>>)
     ELSE LET base == bases[1]
              n == min_len(comp, base)
              failed == {i \in 1..n : RowExc(t, i) # "none"}
          IN IF failed # {} THEN [exc |-> RowExc(t, Min(failed)), val |-> <<>>]
             ELSE Ok([i \in 1..n |->
                        [time |-> base[i].time,
                         temp_f |-> _to_f(ValueOrNone(t.temp, i)).val,
                         precip_in |-> _to_in(ValueOrNone(t.precip, i)).val,
                         solar_w_m2 |-> FloatOrNone(t.solar, i).val,
                         vpd_kpa |-> FloatOrNone(t.vpd, i).val,
                         soil10_pct |-> _to_pct(ValueOrNone(t.soil10, i)).val,
                         soil20_pct |-> _to_pct(ValueOrNone(t.soil20, i)).val]]))

\* ---------------------------------------------------------------- summaries
\* a lookup that takes the first reading of the series
__latest_first(series) == IF series # <<>> THEN series[1] ELSE [time |-> Null, value |-> Null]

\* __latest(series)
__latest(series) == IF series # <<>> THEN series[Len(series)] ELSE [time |-> Null, value |-> Null]

\* parse_iso of __latest_row: the instant of an ISO timestamp, else -1 (None).
\* A timestamp is [k, n]: "iso" is an ISO string without UTC offset (parsed
\* to a naive datetime), "isotz" one with an offset (an aware datetime), any
\* other kind (null, a text that is no timestamp) does not parse.
parse_iso(t) == IF t.k \in {"iso", "isotz"} THEN t.n ELSE -1

\* ts_rows.sort(key=lambda x: x[0]) compares the datetimes of the rows that
\* parsed; comparing a naive with an aware datetime raises TypeError
SortRaises(rows) ==
  \E i, h \in 1..Len(rows) : rows[i].time.k = "iso" /\ rows[h].time.k = "isotz"

\* the row __latest_row picks among the rows whose time parses: the last of
\* the list sorted (stably) by parsed time
LatestIndex(rows) ==
  LET ts == {i \in 1..Len(rows) : parse_iso(rows[i].time) >= 0}
  IN IF ts # {}
     THEN CHOOSE i \in ts :
            \A h \in ts : \/ parse_iso(rows[h].time) < parse_iso(rows[i].time)
                          \/ (parse_iso(rows[h].time) = parse_iso(rows[i].time) /\ h <= i)
     ELSE Len(rows)

NullRow ==
  [time |-> Null, temp_f |-> Null, precip_in |-> Null, solar_w_m2 |-> Null,
   vpd_kpa |-> Null, soil10_pct |-> Null, soil20_pct |-> Null]
NoRow == [k |-> "none", row |-> NullRow]

\* __latest_row(rows); k = "none" stands for None, k = "raise" for the
\* TypeError of the sort
__latest_row(rows) ==
  IF rows = <<>> THEN NoRow
  ELSE IF SortRaises(rows) THEN [k |-> "raise", row |-> NullRow]
  ELSE [k |-> "row", row |-> rows[LatestIndex(rows)]]

\* __percent_series(series).  The values of a snapshot are what
\* __reading_list returns, floats and raw values float() rejects, and _to_pct
\* returns for each of them.
__percent_series(series) ==
  LET conv == [j \in 1..Len(series) |->
                 [time |-> series[j].time, value_pct |-> _to_pct(series[j].value).val]]
  IN SelectSeq(conv, LAMBDA p : p.value_pct # Null)

\* an aggregate that adds the two depths without halving
latest_avg_sum(a, b, up) ==
  IF a # Null /\ b # Null THEN Num(a.n + b.n)
  ELSE IF a # Null THEN a
  ELSE IF b # Null THEN b
  ELSE Null

\* latest_avg of get_soil_moistvals_for_data; a and b are the latest percent
\* values (Null for None)
latest_avg(a, b, up) ==
  IF a # Null /\ b # Null THEN Num(RoundDiv(a.n + b.n, 2, up))
  ELSE IF a # Null THEN a
  ELSE IF b # Null THEN b
  ELSE Null

\* get_soil_moistvals_for_data(data)["latest"]
get_soil_moistvals_for_data(data, up) ==
  LET s10_raw == IF _series(data, K_VWC10) # <<>> THEN _series(data, K_VWC10)
                 ELSE _series(data, K_WaterContent)
      s20_raw == _series(data, K_VWC20)
      s10 == __percent_series(s10_raw)
      s20 == __percent_series(s20_raw)
      has10 == s10 # <<>>
      has20 == s20 # <<>>
      latest10 == s10[Len(s10)]
      latest20 == s20[Len(s20)]
  IN [time |-> IF has10 THEN latest10.time ELSE IF has20 THEN latest20.time ELSE Null,
      soil10_pct |-> IF has10 THEN latest10.value_pct ELSE Null,
      soil20_pct |-> IF has20 THEN latest20.value_pct ELSE Null,
      avg_pct |-> latest_avg(IF has10 THEN latest10.value_pct ELSE Null,
                             IF has20 THEN latest20.value_pct ELSE Null, up)]

\* latest_val_pct and latest_val_float of get_port_quick_values_for_data, on
\* the values of a snapshot (floats and raw values float() rejects)
latest_val_pct(data, label) ==
  LET s == _series(data, label)
  IN IF s # <<>> /\ __latest(s).value # Null THEN _to_pct(__latest(s).value).val ELSE Null

\* a quick value that reports 0.0 for a channel without readings
latest_val_float_zero(data, label) ==
  LET s == _series(data, label)
  IN IF s # <<>> /\ __latest(s).value # Null
     THEN (IF PyFloat(__latest(s).value).exc = "none" THEN PyFloat(__latest(s).value).val ELSE Null)
     ELSE Num(0)

latest_val_float(data, label) ==
  LET s == _series(data, label)
  IN IF s # <<>> /\ __latest(s).value # Null
     THEN (IF PyFloat(__latest(s).value).exc = "none" THEN PyFloat(__latest(s).value).val ELSE Null)
     ELSE Null

\* get_port_quick_values_for_data(data)
get_port_quick_values_for_data(data) ==
  [P1_vwc10_pct |-> latest_val_pct(data, K_VWC10_P1),
   P1_temp10_c |-> latest_val_float(data, K_T10_P1),
   P1_ec10_us_cm |-> latest_val_float(data, K_EC10_P1),
   P2_vwc20_pct |-> latest_val_pct(data, K_VWC20_P2),
   P2_temp20_c |-> latest_val_float(data, K_T20_P2),
   P2_ec20_us_cm |-> latest_val_float(data, K_EC20_P2),
   P3_wp_kpa |-> latest_val_float(data, K_MP_P3),
   P4_vwc10_pct |-> latest_val_pct(data, K_VWC10_P4),
   P4_temp10_c |-> latest_val_float(data, K_T10_P4),
   P4_ec10_us_cm |-> latest_val_float(data, K_EC10_P4),
   P5_vwc20_pct |-> latest_val_pct(data, K_VWC20_P5),
   P5_temp20_c |-> latest_val_float(data, K_T20_P5),
   P5_ec20_us_cm |-> latest_val_float(data, K_EC20_P5),
   P6_wp_kpa |-> latest_val_float(data, K_MP_P6)]

\* ------------------------------------------------ fetch & normalize (single)
\* The mapping loop of fetch_fresh_data (the single-device path).
is_wc_single(label) ==
  \/ label = K_WaterContent
  \/ Lower(label) \in {tok_vol_water_content, tok_vwc, tok_soil_vwc}

\* readings of the default branch: time and value are passed through raw
raw_reading_list(series) ==
  CASE series.rk = "absent" -> Ok(<<>>)
    [] series.rk = "null" -> Raise("TypeError")
    [] series.rk = "list" ->
         Ok([j \in 1..Len(series.readings) |->
               [time |-> series.readings[j].datetime,
                value |-> series.readings[j].value]])

RECURSIVE SingleWC(_, _, _)
SingleWC(sensors, series_list, i) ==
  IF i > Len(series_list) THEN Ok(sensors)
  ELSE With(_series_port(series_list[i]), LAMBDA p :
       With(__reading_list(series_list[i]), LAMBDA r :
         IF p.exc # "none" THEN [exc |-> p.exc, val |-> sensors]
         ELSE IF r.exc # "none" THEN [exc |-> r.exc, val |-> sensors]
         ELSE With(CASE p.val = PyIntV(1) -> Put(sensors, K_VWC10, r.val)
                     [] p.val = PyIntV(2) -> Put(sensors, K_VWC20, r.val)
                     [] OTHER -> Extend(sensors, K_WaterContent, r.val),
                   LAMBDA placed : SingleWC(placed, series_list, i + 1))))

RECURSIVE SingleDefault(_, _, _)
SingleDefault(readings, series_list, i) ==
  IF i > Len(series_list) THEN Ok(readings)
  ELSE With(raw_reading_list(series_list[i]), LAMBDA r :
         IF r.exc # "none" THEN [exc |-> r.exc, val |-> readings]
         ELSE With(readings \o r.val, LAMBDA extended :
                SingleDefault(extended, series_list, i + 1)))

RECURSIVE MapSingleFrom(_, _, _)
MapSingleFrom(sensors, data, i) ==
  IF i > Len(data) THEN Ok(sensors)
  ELSE With(IF is_wc_single(data[i].label)
            THEN SingleWC(sensors, data[i].series_list, 1)
            ELSE With(SingleDefault(<<>>, data[i].series_list, 1), LAMBDA d :
                   IF d.exc # "none" THEN [exc |-> d.exc, val |-> sensors]
                   ELSE Ok(Put(sensors, data[i].label, d.val))),
            LAMBDA m :
              IF m.exc # "none" THEN [exc |-> m.exc, val |-> EmptyDict]
              ELSE MapSingleFrom(m.val, data, i + 1))

map_single(data) == MapSingleFrom(EmptyDict, data, 1)

\* ------------------------------------------------------------------ inputs
\* Upstream payloads: the order of data.items() is the order of the sequence.
Iso(n) == [k |-> "iso", n |-> n]
\* an ISO timestamp with a UTC offset
IsoTz(n) == [k |-> "isotz", n |-> n]

ValueKinds == {"frac", "pctstr", "null", "bad", "nan", "tailnull"}

\* the value of reading j of series i
RawValue(vk, i, j, len) ==
  CASE vk = "frac" -> Num(100 * i + 50 * j + i)
    [] vk = "pctstr" -> NumStr(40000 + 1000 * i + 120 * j)
    [] vk = "null" -> Null
    [] vk = "bad" -> Bad
    [] vk = "nan" -> NaN
    [] vk = "tailnull" -> IF j = len THEN Null ELSE Num(100 * i + 50 * j + i)

NoFields == <<>>

Series(rk, readings) ==
  [direct |-> NoFields, labels |-> NoFields, nested |-> NoFields,
   rk |-> rk, readings |-> readings]

\* a series that carries the direct field port = p and one reading
Ported(p) ==
  [direct |-> [x \in {DirectKeys[1]} |-> Num(1000 * p)], labels |-> NoFields,
   nested |-> NoFields,
   rk |-> "list", readings |-> <<[datetime |-> Iso(1), value |-> Num(100 * p + 7)]>>]

\* n series; series i has `len` readings ("flat", "late") or one fewer at even
\* i ("ragged"); the readings of a "late" list are stamped ten units later
SeriesList(n, len, shape, vk) ==
  [i \in 1..n |->
     LET c == IF shape = "ragged" /\ i % 2 = 0 THEN len - 1 ELSE len
         off == IF shape = "late" THEN 10 ELSE 0
     IN Series("list", [j \in 1..c |->
                          [datetime |-> Iso(off + j), value |-> RawValue(vk, i, j, c)]])]

\* every value kind for one or two series, plain fractions beyond
SeriesLists ==
  {<<>>}
  \cup {SeriesList(n, len, "flat", vk) : n \in 1..2, len \in 1..MaxReadings, vk \in ValueKinds}
  \cup {SeriesList(n, 0, "flat", "frac") : n \in 1..2}
  \cup {SeriesList(n, len, "flat", "frac") : n \in 3..MaxSeries, len \in 1..MaxReadings}
  \cup {SeriesList(2, len, "ragged", "frac") : len \in 1..MaxReadings}
  \cup {<<Series("absent", <<>>)>>,
        <<Series("null", <<>>)>>,
        <<Series("list", <<[datetime |-> Iso(1), value |-> Num(300)]>>),
          Series("null", <<>>)>>,
        <<Series("list", <<[datetime |-> Iso(1), value |-> Big]>>)>>,
        <<Ported(2)>>, <<Ported(2), Ported(1)>>, <<Ported(6), Ported(3)>>,
        <<Ported(2), Series("list", <<[datetime |-> Iso(1), value |-> Num(300)]>>)>>}

SecondLists ==
  {SeriesList(n, len, "flat", vk) : n \in 1..2, len \in {1, MaxReadings}, vk \in {"frac"}}
  \cup {SeriesList(1, 1, "flat", "bad"), SeriesList(1, MaxReadings, "late", "frac")}

UpstreamLabels ==
  {K_WaterContent, L_VWC, K_SoilTemperature, K_ElectricalConductivity,
   K_MatricPotential, L_SoilWaterPotentialECSensor,
   K_AirTemperature, K_Precipitation, K_SolarRadiation, K_VPD, L_BatteryPercent}

FirstLabels == {K_WaterContent, K_AirTemperature, K_ElectricalConductivity}
SecondLabels == {L_VWC, K_Precipitation, K_SolarRadiation, K_MatricPotential}

Payloads ==
  {<<>>}
  \cup {<<[label |-> l, series_list |-> sl]>> : l \in UpstreamLabels, sl \in SeriesLists}
  \cup {<<[label |-> l1, series_list |-> s1], [label |-> l2, series_list |-> s2]>> :
          l1 \in FirstLabels, s1 \in SecondLists, l2 \in SecondLabels, s2 \in SecondLists}

\* Series offered to the port resolver.
DirectValues == {Null, Num(1000), Num(2700), IntStr(2000), Bad, NaN, Inf}

LabelTexts == {T_Port1, T_ParenPort2, T_p3, T_Ch4, T_10cm, T_Plain}

DirectChoices ==
  UNION {[ks -> DirectValues] :
           ks \in {ks \in SUBSET {DirectKeys[i] : i \in 1..5} : Cardinality(ks) <= MaxFields}}

StrLabel(t) == [k |-> "str", s |-> t]

LabelChoices ==
  {NoFields}
  \cup {[x \in {LabelFields[1]} |-> StrLabel(t)] : t \in LabelTexts}
  \cup {[x \in {LabelFields[i]} |-> StrLabel(T_Port1)] : i \in 2..5}
  \cup {[x \in {LabelFields[1]} |-> [k |-> "other", s |-> <<>>]]}
  \cup {[x \in {LabelFields[1], LabelFields[3]} |->
           IF x = LabelFields[1] THEN StrLabel(T_Plain) ELSE StrLabel(T_p3)]}

FewLabelChoices ==
  {NoFields, [x \in {LabelFields[1]} |-> StrLabel(T_Port1)]}

\* The sub-objects a series may carry under a key that is neither a direct
\* field nor a label field: one object with a port field.
NestKeys == <<"sensor", "metadata", "source", "info">>

NestedChoices ==
  {[x \in {NestKeys[i]} |-> [y \in {DirectKeys[1]} |-> v]] :
     i \in 1..Len(NestKeys), v \in {Num(2000), Bad}}

PortSeries ==
  {[direct |-> d, labels |-> l, nested |-> NoFields, rk |-> "absent", readings |-> <<>>] :
     d \in {d \in DirectChoices : Cardinality(DOMAIN d) <= 1}, l \in LabelChoices}
  \cup {[direct |-> d, labels |-> l, nested |-> NoFields, rk |-> "absent", readings |-> <<>>] :
     d \in {d \in DirectChoices : Cardinality(DOMAIN d) > 1}, l \in FewLabelChoices}
  \cup {[direct |-> d, labels |-> l, nested |-> n, rk |-> "absent", readings |-> <<>>] :
     d \in {NoFields, [x \in {DirectKeys[1]} |-> Bad], [x \in {DirectKeys[1]} |-> Num(1000)]},
     l \in FewLabelChoices, n \in NestedChoices}

\* Values offered to the percent converter: the decimals around 1 where the
\* scaling rule switches, the examples 0.453 and 45.3, negatives, numeric
\* strings, and what float() rejects or maps to a non-finite float.
ConvValues ==
  {Num(n) : n \in (1000 - ConvSpan)..(1000 + ConvSpan)}
  \cup {Num(0), Num(453), Num(45300), Num(45349), Num(45351), Num(-500), Num(-2000)}
  \cup {NumStr(453), NumStr(45300), IntStr(1000), IntStr(2000)}
  \cup {Null, Bad, NaN, Inf, Big}

\* Row lists offered to __latest_row: every sequence of up to MaxRows rows
\* over these time fields; temp_f tells the rows of a list apart.
RowTimes == {Iso(1), Iso(2), IsoTz(2), Bad, Null}

RowOf(t, i) ==
  [time |-> t, temp_f |-> Num(i), precip_in |-> Null, solar_w_m2 |-> Null,
   vpd_kpa |-> Null, soil10_pct |-> Null, soil20_pct |-> Null]

RowLists ==
  UNION {{[i \in 1..n |-> RowOf(ts[i], i)] : ts \in [1..n -> RowTimes]} : n \in 0..MaxRows}

\* ------------------------------------------------------------------- state
VARIABLES
  series,      \* SpecPort: the series handed to _series_port
  port,        \* SpecPort: its result, [exc, val]
  ppc,         \* SpecPort: "in" before the call, "out" after
  path,        \* SpecMapper: "multi" (fetch_fresh_data_for) or "single" (fetch_fresh_data)
  raw,         \* SpecMapper: raw.get("data", {}) of the upstream response
  sensors,     \* SpecMapper: the mapper's result, [exc, val]
  rows,        \* SpecMapper: result of _build_table_rows, [exc, val]; SpecRows: the rows
  latest,      \* SpecMapper, SpecRows: result of __latest_row on the rows
  soil,        \* SpecMapper: result of get_soil_moistvals_for_data
  ports,       \* SpecMapper: result of get_port_quick_values_for_data
  mpc,         \* SpecMapper: "raw", "mapped", "viewed"; SpecRows: "rows", "picked"
  cval,        \* SpecConv: the value handed to _to_pct
  cres,        \* SpecConv: its result, [exc, val]
  cpc,         \* SpecConv: "in" before the call, "out" after
  clock,       \* Spec, SpecSingle: wall clock in seconds
  calls,       \* Spec, SpecSingle: handler invocations so far
  faults,      \* Spec, SpecSingle: irregular upstream responses so far
  upstream,    \* Spec, SpecSingle: the requests sent to the Zentra API (history)
  cache,       \* Spec: data_cache_<sn>.json of each device
  rate_file,   \* Spec: rate_limit_<sn>.json of each device, -1 when missing
  devices,     \* Spec: the `devices` list of api_combined_all
  trail,       \* Spec: what failed for each entry of `devices` (history)
  di,          \* Spec: position of api_combined_all, 0 when not running
  last,        \* Spec: the latest get_cached_data_for call (history)
  cache_file,  \* SpecSingle: CACHE_FILE of the single-device path
  slast,       \* SpecSingle: the latest get_cached_data call (history)
  tpc,         \* SpecConc: where each request thread is in get_cached_data_for
  tloc         \* SpecConc: the local variables of each request thread

portVars == <<series, port, ppc>>
mapVars == <<path, raw, sensors, rows, latest, soil, ports, mpc>>
convVars == <<cval, cres, cpc>>
timeVars == <<clock, calls, faults, upstream>>
multiVars == <<cache, rate_file, devices, trail, di, last>>
singleVars == <<cache_file, slast>>
concVars == <<tpc, tloc>>
vars == <<portVars, mapVars, convVars, timeVars, multiVars, singleVars, concVars>>

NullSoil == [time |-> Null, soil10_pct |-> Null, soil20_pct |-> Null, avg_pct |-> Null]

PortIdle == series = Series("absent", <<>>) /\ port = Ok(Null) /\ ppc = "idle"
ConvIdle == cval = Null /\ cres = Ok(Null) /\ cpc = "idle"
MapIdle ==
  /\ path = "none" /\ raw = <<>> /\ sensors = Ok(EmptyDict) /\ rows = Ok(<<>>)
  /\ latest = NoRow
  /\ soil = NullSoil /\ ports = get_port_quick_values_for_data(EmptyDict) /\ mpc = "idle"

Absent == [k |-> "absent", ts |-> 0, data |-> EmptyDict]
Corrupt == [k |-> "corrupt", ts |-> 0, data |-> EmptyDict]
Entry(ts, data) == [k |-> "entry", ts |-> ts, data |-> data]

NoCall ==
  [sn |-> "none", pre |-> Absent, fresh |-> FALSE, nreq |-> 0, fetch |-> "none",
   ret |-> Ok(EmptyDict), at |-> 0, t0 |-> 0]

\* the same for get_cached_data, with what its retry loop did
NoSingleCall ==
  [sn |-> "none", pre |-> Absent, fresh |-> FALSE, nreq |-> 0, fetch |-> "none",
   ret |-> Ok(EmptyDict), at |-> 0, t0 |-> 0, answers |-> <<>>, sent |-> <<>>, exc |-> "none"]

TimeIdle == clock = 0 /\ calls = 0 /\ faults = 0 /\ upstream = <<>>
MultiIdle ==
  /\ cache = <<>> /\ rate_file = <<>> /\ devices = <<>> /\ trail = <<>>
  /\ di = 0 /\ last = NoCall
SingleIdle == cache_file = Absent /\ slast = NoSingleCall

\* the request threads of the concurrent handlers and their local variables
Threads == {1, 2}
NoLocal == [wake |-> 0, up |-> "none", treq |-> 0, fresh |-> Ok(EmptyDict), ret |-> Ok(EmptyDict)]
ConcIdle == tpc = [th \in Threads |-> "idle"] /\ tloc = [th \in Threads |-> NoLocal]

CacheIdle == TimeIdle /\ MultiIdle /\ SingleIdle /\ ConcIdle
cacheVars == <<timeVars, multiVars, singleVars, concVars>>

\* ---------------------------------------------------------------- SpecPort
InitPort ==
  /\ series \in PortSeries /\ port = Ok(Null) /\ ppc = "in"
  /\ MapIdle /\ ConvIdle /\ CacheIdle

ResolvePort ==
  /\ ppc = "in"
  /\ port' = _series_port(series)
  /\ ppc' = "out"
  /\ UNCHANGED <<series, mapVars, convVars, cacheVars>>

NextPort == ResolvePort

SpecPort == InitPort /\ [][NextPort]_vars

\* -------------------------------------------------------------- SpecMapper
InitMapper ==
  /\ path \in {"multi", "single"}
  /\ raw \in Payloads
  /\ sensors = Ok(EmptyDict) /\ rows = Ok(<<>>) /\ latest = NoRow /\ soil = NullSoil
  /\ ports = get_port_quick_values_for_data(EmptyDict)
  /\ mpc = "raw"
  /\ PortIdle /\ ConvIdle /\ CacheIdle

\* the mapping loop of the fetch function of the path
MapPayload ==
  /\ mpc = "raw"
  /\ sensors' = IF path = "multi" THEN map_device(raw) ELSE map_single(raw)
  /\ mpc' = "mapped"
  /\ UNCHANGED <<path, raw, rows, latest, soil, ports, portVars, convVars, cacheVars>>

\* the three views a handler computes from the snapshot
Summarize ==
  /\ mpc = "mapped"
  /\ sensors.exc = "none"
  /\ rows' = _build_table_rows(sensors.val)
  /\ latest' = __latest_row(rows'.val)
  /\ \E up \in BOOLEAN : soil' = get_soil_moistvals_for_data(sensors.val, up)
  /\ ports' = get_port_quick_values_for_data(sensors.val)
  /\ mpc' = "viewed"
  /\ UNCHANGED <<path, raw, sensors, portVars, convVars, cacheVars>>

NextMapper == MapPayload \/ Summarize

SpecMapper == InitMapper /\ [][NextMapper]_vars

\* ---------------------------------------------------------------- SpecConv
\* The percent converter applied to one value.
InitConv ==
  /\ cval \in ConvValues /\ cres = Ok(Null) /\ cpc = "in"
  /\ PortIdle /\ MapIdle /\ CacheIdle

ConvertPct ==
  /\ cpc = "in"
  /\ cres' = _to_pct(cval)
  /\ cpc' = "out"
  /\ UNCHANGED <<cval, portVars, mapVars, cacheVars>>

NextConv == ConvertPct

SpecConv == InitConv /\ [][NextConv]_vars

\* ---------------------------------------------------------------- SpecRows
\* __latest_row applied to a list of table rows.
InitRows ==
  /\ path = "none" /\ raw = <<>> /\ sensors = Ok(EmptyDict)
  /\ rows \in {Ok(r) : r \in RowLists}
  /\ latest = NoRow /\ soil = NullSoil
  /\ ports = get_port_quick_values_for_data(EmptyDict)
  /\ mpc = "rows"
  /\ PortIdle /\ ConvIdle /\ CacheIdle

LatestRow ==
  /\ mpc = "rows"
  /\ latest' = __latest_row(rows.val)
  /\ mpc' = "picked"
  /\ UNCHANGED <<path, raw, sensors, rows, soil, ports, portVars, convVars, cacheVars>>

NextRows == LatestRow

SpecRows == InitRows /\ [][NextRows]_vars

\* ------------------------------------------------------------ upstream API
ALLOWED_DEVICE_SNS == <<"z6-32396", "z6-20881", "z6-27574", "z6-27573">>
DeviceSet == {ALLOWED_DEVICE_SNS[i] : i \in 1..Len(ALLOWED_DEVICE_SNS)}

\* What the Zentra API holds for a device at time t: two moisture series, air
\* temperature and solar radiation, one reading each, stamped t.
Telemetry(t) ==
  <<[label |-> K_WaterContent,
     series_list |-> <<Series("list", <<[datetime |-> Iso(t), value |-> Num(200 + t)]>>),
                       Series("list", <<[datetime |-> Iso(t), value |-> Num(400 + t)]>>)>>],
    [label |-> K_AirTemperature,
     series_list |-> <<Series("list", <<[datetime |-> Iso(t), value |-> Num(20000 + t)]>>)>>],
    [label |-> K_SolarRadiation,
     series_list |-> <<Series("list", <<[datetime |-> Iso(t), value |-> Num(500000)]>>)>>]>>

\* the same with a status string as the solar radiation value
StatusTelemetry(t) ==
  <<[label |-> K_AirTemperature,
     series_list |-> <<Series("list", <<[datetime |-> Iso(t), value |-> Num(20000 + t)]>>)>>],
    [label |-> K_SolarRadiation,
     series_list |-> <<Series("list", <<[datetime |-> Iso(t), value |-> Bad]>>)>>]>>

\* a moisture series whose readings field is null
MalformedTelemetry(t) ==
  <<[label |-> K_AirTemperature,
     series_list |-> <<Series("list", <<[datetime |-> Iso(t), value |-> Num(20000 + t)]>>)>>],
    [label |-> K_WaterContent, series_list |-> <<Series("null", <<>>)>>]>>

\* Outcomes of one requests.get: the request itself fails ("neterr"), the
\* response has an error status ("http"), a 429 status ("r429"), or a body.
Regular == "ok"
Irregular == {"neterr", "http", "status", "malformed", "empty"}

Body(up, t) ==
  CASE up = "ok" -> Telemetry(t)
    [] up = "status" -> StatusTelemetry(t)
    [] up = "malformed" -> MalformedTelemetry(t)
    [] OTHER -> <<>>

\* the outcomes the fault budget still allows
Outcomes == {Regular} \cup (IF faults < MaxFaults THEN Irregular ELSE {})

\* --------------------------------------------------- per-device cache (multi)
\* a fetch that does not wait for the rate limit
fetch_fresh_data_for_nowait(now, rf, up) ==
  LET t == now
  IN CASE up = "neterr" ->
            [ret |-> Ok(EmptyDict), rate |-> rf, at |-> t, failed |-> TRUE]
       [] up = "http" ->
            [ret |-> Ok(EmptyDict), rate |-> t, at |-> t, failed |-> TRUE]
       [] OTHER ->
            [ret |-> map_device(Body(up, t)), rate |-> t, at |-> t, failed |-> FALSE]

\* fetch_fresh_data_for(device_sn) at time `now` with rate file `rf` when the
\* upstream answers `up`: the result, the rate file, the time on return, and
\* whether the upstream request failed.
fetch_fresh_data_for(now, rf, up) ==
  LET t == IF rf >= 0 /\ now - rf < RATE_LIMIT_SECONDS
           THEN now + (RATE_LIMIT_SECONDS - (now - rf))
           ELSE now
  IN CASE up = "neterr" ->
            [ret |-> Ok(EmptyDict), rate |-> rf, at |-> t, failed |-> TRUE]
       [] up = "http" ->
            [ret |-> Ok(EmptyDict), rate |-> t, at |-> t, failed |-> TRUE]
       [] OTHER ->
            [ret |-> map_device(Body(up, t)), rate |-> t, at |-> t, failed |-> FALSE]

IsFresh(c, now) == c.k = "entry" /\ now - c.ts < CACHE_TTL_MINUTES * 60

\* get_cached_data_for(device_sn): the result, the cache entry, the rate file
\* and the time on return, and the number of upstream requests issued.
get_cached_data_for(now, c, rf, up) ==
  IF IsFresh(c, now)
  THEN [ret |-> Ok(c.data), cache |-> c, rate |-> rf, at |-> now, nreq |-> 0,
        fetch |-> "none"]
  ELSE With(fetch_fresh_data_for(now, rf, up), LAMBDA f :
         [ret |-> IF f.ret.exc = "none" THEN f.ret ELSE [exc |-> f.ret.exc, val |-> EmptyDict],
          cache |-> IF f.ret.exc = "none" THEN Entry(f.at, f.ret.val) ELSE c,
          rate |-> f.rate, at |-> f.at, nreq |-> 1,
          fetch |-> IF f.failed THEN "failed"
                    ELSE IF f.ret.exc # "none" THEN "raised" ELSE "ok"])

\* the requests a get_cached_data_for call sent upstream: none, or one at the
\* time fetch_fresh_data_for was done waiting, answered `up`
Requests(sn, g, up) ==
  IF g.nreq = 0 THEN <<>> ELSE <<[sn |-> sn, t |-> g.at, answer |-> up]>>

\* the record kept of a get_cached_data_for call
CallOf(sn, c, now, g) ==
  [sn |-> sn, pre |-> c, fresh |-> IsFresh(c, now), nreq |-> g.nreq,
   fetch |-> g.fetch, ret |-> g.ret, at |-> g.at, t0 |-> now]

\* ------------------------------------------------------------- endpoints
NullPorts == get_port_quick_values_for_data(EmptyDict)

ErrorEntry(sn, e) ==
  [device_sn |-> sn, kind |-> "error", error |-> e,
   latest |-> NoRow, soil |-> NullSoil, ports |-> NullPorts]

DataEntry(sn, rws, data, tie) ==
  [device_sn |-> sn, kind |-> "data", error |-> "none",
   latest |-> __latest_row(rws),
   soil |-> get_soil_moistvals_for_data(data, tie),
   ports |-> get_port_quick_values_for_data(data)]

\* the body of the try block of api_combined_all for one device
DeviceEntry(sn, g, tie) ==
  IF g.ret.exc # "none" THEN ErrorEntry(sn, g.ret.exc)
  ELSE With(_build_table_rows(g.ret.val), LAMBDA rws :
         IF rws.exc # "none" THEN ErrorEntry(sn, rws.exc)
         ELSE IF __latest_row(rws.val).k = "raise" THEN ErrorEntry(sn, "TypeError")
         ELSE DataEntry(sn, rws.val, g.ret.val, tie))

\* what went wrong while the entry of a device was made
Failure(g) ==
  CASE g.fetch = "failed" -> "fetch"
    [] g.fetch = "raised" -> "map"
    [] _build_table_rows(g.ret.val).exc # "none" -> "summarize"
    [] __latest_row(_build_table_rows(g.ret.val).val).k = "raise" -> "summarize"
    [] OTHER -> "none"

\* the devices /api/soil is requested for
SoilRequests == {ALLOWED_DEVICE_SNS[1]}

InitCache ==
  /\ clock = 0 /\ calls = 0 /\ faults = 0 /\ upstream = <<>>
  /\ \E c \in {Absent, Corrupt} :
       cache = [sn \in DeviceSet |-> IF sn = ALLOWED_DEVICE_SNS[1] THEN c ELSE Absent]
  /\ rate_file = [sn \in DeviceSet |-> -1]
  /\ devices = <<>> /\ trail = <<>> /\ di = 0 /\ last = NoCall
  /\ PortIdle /\ MapIdle /\ ConvIdle /\ ConcIdle /\ SingleIdle

\* time passes between two requests
Tick ==
  /\ di = 0
  /\ \E d \in {30, 60} : clock + d <= MaxClock /\ clock' = clock + d
  /\ UNCHANGED <<calls, faults, upstream, multiVars, singleVars, portVars, mapVars, convVars, concVars>>

\* GET /api/soil/<device_sn>
api_soil_new ==
  /\ di = 0 /\ calls < MaxCalls
  /\ \E sn \in SoilRequests, up \in Outcomes :
       \E g \in {get_cached_data_for(clock, cache[sn], rate_file[sn], up)} :
          /\ cache' = [cache EXCEPT ![sn] = g.cache]
          /\ rate_file' = [rate_file EXCEPT ![sn] = g.rate]
          /\ clock' = g.at
          /\ last' = CallOf(sn, cache[sn], clock, g)
          /\ faults' = IF g.nreq = 1 /\ up \in Irregular THEN faults + 1 ELSE faults
          /\ upstream' = upstream \o Requests(sn, g, up)
  /\ calls' = calls + 1
  /\ UNCHANGED <<devices, trail, di, singleVars, portVars, mapVars, convVars, concVars>>

\* GET /api/combined_all: devices = []
api_combined_all_begin ==
  /\ di = 0 /\ calls < MaxCalls
  /\ devices' = <<>> /\ trail' = <<>> /\ di' = 1
  /\ calls' = calls + 1
  /\ UNCHANGED <<clock, faults, upstream, cache, rate_file, last, singleVars, portVars,
                 mapVars, convVars, concVars>>

\* one iteration of `for sn in ALLOWED_DEVICE_SNS`
api_combined_all_device ==
  /\ di \in 1..Len(ALLOWED_DEVICE_SNS)
  /\ LET sn == ALLOWED_DEVICE_SNS[di]
     IN \E up \in Outcomes, tie \in BOOLEAN :
          \E g \in {get_cached_data_for(clock, cache[sn], rate_file[sn], up)} :
             /\ cache' = [cache EXCEPT ![sn] = g.cache]
             /\ rate_file' = [rate_file EXCEPT ![sn] = g.rate]
             /\ clock' = g.at
             /\ last' = CallOf(sn, cache[sn], clock, g)
             /\ faults' = IF g.nreq = 1 /\ up \in Irregular THEN faults + 1 ELSE faults
             /\ upstream' = upstream \o Requests(sn, g, up)
             /\ devices' = Append(devices, DeviceEntry(sn, g, tie))
             /\ trail' = Append(trail, Failure(g))
  /\ di' = di + 1
  /\ UNCHANGED <<calls, singleVars, portVars, mapVars, convVars, concVars>>

\* return jsonify({"count": len(devices), "devices": devices})
api_combined_all_return ==
  /\ di = Len(ALLOWED_DEVICE_SNS) + 1
  /\ di' = 0
  /\ UNCHANGED <<clock, calls, faults, upstream, cache, rate_file, devices, trail, last,
                 singleVars, portVars, mapVars, convVars, concVars>>

Next ==
  \/ Tick
  \/ api_soil_new
  \/ api_combined_all_begin
  \/ api_combined_all_device
  \/ api_combined_all_return

Spec == InitCache /\ [][Next]_vars

\* ------------------------------------------------ single-device cache path
SingleOutcomes == {"ok", "r429", "http", "neterr", "malformed"}

\* a retry loop without the exponential backoff: every wait is retry_delay
RECURSIVE fetch_attempt_flat(_, _, _, _, _)
fetch_attempt_flat(resp, attempt, t, retry_delay, sent) ==
  LET r == resp[attempt + 1]
      out == Append(sent, t)
  IN CASE r = "r429" ->
            IF attempt < max_retries - 1
            THEN fetch_attempt_flat(resp, attempt + 1, t + retry_delay, retry_delay, out)
            ELSE [ret |-> [exc |-> "Exception", val |-> EmptyDict], at |-> t, sent |-> out]
       [] r = "http" ->
            [ret |-> [exc |-> "HTTPError", val |-> EmptyDict], at |-> t, sent |-> out]
       [] r = "neterr" ->
            [ret |-> [exc |-> "ConnectionError", val |-> EmptyDict], at |-> t, sent |-> out]
       [] OTHER ->
            [ret |-> map_single(Body(r, t)), at |-> t, sent |-> out]

\* the retry loop of fetch_fresh_data from `attempt` on, followed by the
\* mapping loop; resp[a + 1] is what the upstream answers to attempt a
RECURSIVE fetch_attempt(_, _, _, _, _)
fetch_attempt(resp, attempt, t, retry_delay, sent) ==
  LET r == resp[attempt + 1]
      out == Append(sent, t)
  IN CASE r = "r429" ->
            IF attempt < max_retries - 1
            THEN fetch_attempt(resp, attempt + 1, t + retry_delay, retry_delay * 2, out)
            ELSE [ret |-> [exc |-> "Exception", val |-> EmptyDict], at |-> t, sent |-> out]
       [] r = "http" ->
            [ret |-> [exc |-> "HTTPError", val |-> EmptyDict], at |-> t, sent |-> out]
       [] r = "neterr" ->
            [ret |-> [exc |-> "ConnectionError", val |-> EmptyDict], at |-> t, sent |-> out]
       [] OTHER ->
            [ret |-> map_single(Body(r, t)), at |-> t, sent |-> out]

fetch_fresh_data(now, resp) == fetch_attempt(resp, 0, now, 1, <<>>)

\* a fallback that gives up the stale data
stale_data_dropped(c) == EmptyDict

\* the stale fallback of get_cached_data: cached["data"] of a readable file
stale_data(c) == IF c.k = "entry" THEN c.data ELSE EmptyDict

\* get_cached_data(): the result, CACHE_FILE and the time on return, and the
\* number of upstream requests issued.
get_cached_data(now, c, resp) ==
  IF IsFresh(c, now)
  THEN [ret |-> Ok(c.data), cache |-> c, at |-> now, sent |-> <<>>, fetch |-> "none",
        exc |-> "none"]
  ELSE With(fetch_fresh_data(now, resp), LAMBDA f :
         IF f.ret.exc = "none"
         THEN [ret |-> f.ret, cache |-> Entry(f.at, f.ret.val), at |-> f.at,
               sent |-> f.sent, fetch |-> "ok", exc |-> "none"]
         ELSE [ret |-> Ok(stale_data(c)), cache |-> c, at |-> f.at,
               sent |-> f.sent, fetch |-> "raised", exc |-> f.ret.exc])

InitSingle ==
  /\ clock = 0 /\ calls = 0 /\ faults = 0 /\ upstream = <<>>
  /\ cache_file \in {Absent, Corrupt}
  /\ slast = NoSingleCall
  /\ PortIdle /\ MapIdle /\ ConvIdle /\ ConcIdle /\ MultiIdle

\* GET /api/live/<device_sn>: jsonify(get_cached_data())
api_live_device ==
  /\ calls < MaxCalls
  /\ \E resp \in [1..max_retries -> SingleOutcomes] :
       \E g \in {get_cached_data(clock, cache_file, resp)} :
          /\ cache_file' = g.cache
          /\ clock' = g.at
          /\ upstream' = upstream \o [k \in 1..Len(g.sent) |->
                                        [sn |-> "DEVICE_SN", t |-> g.sent[k], answer |-> resp[k]]]
          /\ slast' = [sn |-> "DEVICE_SN", pre |-> cache_file,
                       fresh |-> IsFresh(cache_file, clock), nreq |-> Len(g.sent),
                       fetch |-> g.fetch, ret |-> g.ret, at |-> g.at, t0 |-> clock,
                       answers |-> SubSeq(resp, 1, Len(g.sent)), sent |-> g.sent,
                       exc |-> g.exc]
  /\ calls' = calls + 1
  /\ UNCHANGED <<faults, multiVars, portVars, mapVars, convVars, concVars>>

NextSingle == Tick \/ api_live_device

SpecSingle == InitSingle /\ [][NextSingle]_vars

\* ------------------------------------------- concurrent requests, one device
\* Two requests for one device are handled at the same time, each by a thread
\* of the server that runs get_cached_data_for; the steps of a thread are its
\* accesses to the cache file, the rate file and the upstream.
ConcDevice == ALLOWED_DEVICE_SNS[1]
ConcOutcomes == {Regular} \cup Irregular

\* a thread moves to pc with its local variables changed to loc
Goto(th, pc, loc) ==
  /\ tpc' = [tpc EXCEPT ![th] = pc]
  /\ tloc' = [tloc EXCEPT ![th] = loc]

InitConc ==
  /\ calls = 0 /\ faults = 0 /\ upstream = <<>>
  /\ \/ /\ clock = 0
        /\ \E c \in {Absent, Corrupt} :
             cache = [sn \in DeviceSet |-> IF sn = ConcDevice THEN c ELSE Absent]
        /\ rate_file = [sn \in DeviceSet |-> -1]
     \/ /\ clock \in {60, MaxClock}
        /\ cache = [sn \in DeviceSet |->
                      IF sn = ConcDevice THEN Entry(0, map_device(Telemetry(0)).val) ELSE Absent]
        /\ rate_file = [sn \in DeviceSet |-> IF sn = ConcDevice THEN 0 ELSE -1]
  /\ devices = <<>> /\ trail = <<>> /\ di = 0 /\ last = NoCall
  /\ tpc = [th \in Threads |-> "check"] /\ tloc = [th \in Threads |-> NoLocal]
  /\ PortIdle /\ MapIdle /\ ConvIdle /\ SingleIdle

\* get_cached_data_for: the cache file is read; a fresh entry is returned
conc_check(th) ==
  /\ tpc[th] = "check"
  /\ IF IsFresh(cache[ConcDevice], clock)
     THEN Goto(th, "done", [tloc[th] EXCEPT !.ret = Ok(cache[ConcDevice].data)])
     ELSE Goto(th, "limit", tloc[th])
  /\ UNCHANGED <<timeVars, multiVars, singleVars, portVars, mapVars, convVars>>

\* fetch_fresh_data_for: the rate file is read and the wait computed
conc_limit(th) ==
  /\ tpc[th] = "limit"
  /\ LET rf == rate_file[ConcDevice]
     IN IF rf >= 0 /\ clock - rf < RATE_LIMIT_SECONDS
        THEN Goto(th, "sleep", [tloc[th] EXCEPT !.wake = clock + (RATE_LIMIT_SECONDS - (clock - rf))])
        ELSE Goto(th, "request", tloc[th])
  /\ UNCHANGED <<timeVars, multiVars, singleVars, portVars, mapVars, convVars>>

\* time.sleep(wait_time) returns
conc_wake(th) ==
  /\ tpc[th] = "sleep"
  /\ clock' = IF clock < tloc[th].wake THEN tloc[th].wake ELSE clock
  /\ Goto(th, "request", tloc[th])
  /\ UNCHANGED <<calls, faults, upstream, multiVars, singleVars, portVars, mapVars, convVars>>

\* requests.get: the request goes upstream and is answered, or raises
conc_request(th) ==
  /\ tpc[th] = "request"
  /\ \E up \in ConcOutcomes :
       /\ upstream' = Append(upstream, [sn |-> ConcDevice, t |-> clock, answer |-> up])
       /\ IF up = "neterr"
          THEN Goto(th, "store", [tloc[th] EXCEPT !.up = up, !.treq = clock, !.fresh = Ok(EmptyDict)])
          ELSE Goto(th, "record", [tloc[th] EXCEPT !.up = up, !.treq = clock])
  /\ UNCHANGED <<clock, calls, faults, multiVars, singleVars, portVars, mapVars, convVars>>

\* the rate file is written, then the response is checked and mapped
conc_record(th) ==
  /\ tpc[th] = "record"
  /\ rate_file' = [rate_file EXCEPT ![ConcDevice] = clock]
  /\ IF tloc[th].up = "http"
     THEN Goto(th, "store", [tloc[th] EXCEPT !.fresh = Ok(EmptyDict)])
     ELSE \E m \in {map_device(Body(tloc[th].up, tloc[th].treq))} :
            IF m.exc # "none"
            THEN Goto(th, "done", [tloc[th] EXCEPT !.ret = [exc |-> m.exc, val |-> EmptyDict]])
            ELSE Goto(th, "store", [tloc[th] EXCEPT !.fresh = m])
  /\ UNCHANGED <<timeVars, cache, devices, trail, di, last, singleVars, portVars, mapVars,
                 convVars>>

\* get_cached_data_for: the cache file is written and `fresh` returned
conc_store(th) ==
  /\ tpc[th] = "store"
  /\ cache' = [cache EXCEPT ![ConcDevice] = Entry(clock, tloc[th].fresh.val)]
  /\ Goto(th, "done", [tloc[th] EXCEPT !.ret = tloc[th].fresh])
  /\ UNCHANGED <<timeVars, rate_file, devices, trail, di, last, singleVars, portVars, mapVars,
                 convVars>>

NextConc ==
  \E th \in Threads :
    \/ conc_check(th)
    \/ conc_limit(th)
    \/ conc_wake(th)
    \/ conc_request(th)
    \/ conc_record(th)
    \/ conc_store(th)

SpecConc == InitConc /\ [][NextConc]_vars
\* ================================================================== claims
RECURSIVE SumSeq(_, _)
SumSeq(s, i) == IF i > Len(s) THEN 0 ELSE s[i] + SumSeq(s, i + 1)

RECURSIVE SumLen(_, _)
SumLen(d, keys) ==
  IF keys = {} THEN 0
  ELSE LET key == CHOOSE x \in keys : TRUE
       IN Len(d[key]) + SumLen(d, keys \ {key})

\* readings in one upstream series
SeriesCount(s) == IF s.rk = "list" THEN Len(s.readings) ELSE 0

\* readings in the whole upstream payload
CountIn(data) ==
  SumSeq([e \in 1..Len(data) |->
            SumSeq([i \in 1..Len(data[e].series_list) |-> SeriesCount(data[e].series_list[i])], 1)], 1)

\* readings in the snapshot, a legacy alias and its port channel counted once
CountOut(d) == SumLen(d, (DOMAIN d) \ {K_VWC10, K_VWC20})

Mapped == mpc \in {"mapped", "viewed"} /\ sensors.exc = "none"

\* C1 (as claimed): zero loss.  Whenever fetch_fresh_data_for has mapped a
\* payload, the snapshot holds as many readings (legacy aliases counted once)
\* as the payload's series hold.
C1_ZeroLoss ==
  (path = "multi" /\ Mapped) => CountOut(sensors.val) = CountIn(raw)

ECKeys == {K_EC10_P1, K_EC20_P2, K_EC10_P4, K_EC20_P5, K_ElectricalConductivity}

\* C2 (as claimed): a label that carries a potential token is mapped as
\* POTENTIAL although it also contains "ec": a payload of such labels fills
\* the Matric Potential channels and no Electrical Conductivity channel.
C2_PotentialBeforeEC ==
  (path = "multi" /\ Mapped /\ raw # <<>>
     /\ \A e \in 1..Len(raw) : __label_is_mp(raw[e].label) /\ raw[e].series_list # <<>>)
  => (K_MP_P3 \in DOMAIN sensors.val /\ ECKeys \cap DOMAIN sensors.val = {})

\* the first direct field that is present and coercible to an integer
Coercible(s, key) ==
  key \in DOMAIN s.direct /\ s.direct[key] # Null /\ PyInt(s.direct[key]).exc = "none"
HasCoercible(s) == \E i \in 1..Len(DirectKeys) : Coercible(s, DirectKeys[i])
FirstCoercible(s) ==
  DirectKeys[CHOOSE i \in 1..Len(DirectKeys) :
               Coercible(s, DirectKeys[i]) /\ \A h \in 1..(i - 1) : ~Coercible(s, DirectKeys[h])]

\* C3 (as claimed): direct field wins.  For a series that has a direct port
\* field coercible to an integer, _series_port returns the integer of the
\* first such field in the order port, port_num, source_port, channel,
\* port_number, whatever the label fields say.
C3_DirectFieldWins ==
  (ppc = "out" /\ HasCoercible(series))
  => port = Ok(PyInt(series.direct[FirstCoercible(series)]).val)

\* What does hold of the resolver: when it returns, it returns the integer of
\* the first coercible direct field.
DirectFieldWinsOnReturn ==
  (ppc = "out" /\ port.exc = "none" /\ HasCoercible(series))
  => port.val = PyInt(series.direct[FirstCoercible(series)]).val

\* C4: moisture legacy aliasing in the finished snapshot.  (P1) comes with the
\* legacy 10 cm channel and (P2) with the legacy 20 cm channel, each with the
\* identical reading sequence, and a legacy channel never holds anything but
\* its (P1)/(P2) channel's readings, so (P4) and (P5) never write one.
C4_LegacyAlias ==
  (path = "multi" /\ Mapped) =>
    LET d == sensors.val
    IN /\ (K_VWC10_P1 \in DOMAIN d) <=> (K_VWC10 \in DOMAIN d)
       /\ (K_VWC20_P2 \in DOMAIN d) <=> (K_VWC20 \in DOMAIN d)
       /\ K_VWC10_P1 \in DOMAIN d => d[K_VWC10] = d[K_VWC10_P1]
       /\ K_VWC20_P2 \in DOMAIN d => d[K_VWC20] = d[K_VWC20_P2]

\* C4 witness: four moisture series with readings have been mapped.
C4_Witness ==
    /\ path = "multi" /\ Mapped
    /\ {K_VWC10_P1, K_VWC20_P2, K_VWC10_P4, K_VWC20_P5} \subseteq DOMAIN sensors.val
    /\ sensors.val[K_VWC10_P1] # <<>>
    /\ sensors.val[K_VWC10_P4] # sensors.val[K_VWC10_P1]
    /\ sensors.val[K_VWC20_P5] # sensors.val[K_VWC20_P2]

\* lengths of the non-empty series among the six the table builder selected
TableLens(data) ==
  LET t == TableSeries(data)
  IN {Len(s) : s \in {t.temp, t.precip, t.solar, t.vpd, t.soil10, t.soil20} \ {<<>>}}

\* C5 (as claimed): _build_table_rows returns as many rows as the shortest
\* non-empty selected channel has readings, and no rows when all six are
\* empty.
C5_RowCount ==
  mpc = "viewed" =>
    /\ rows.exc = "none"
    /\ Len(rows.val) = IF TableLens(sensors.val) = {} THEN 0 ELSE Min(TableLens(sensors.val))

\* What does hold of the table builder: when it returns, the row count is the
\* length of the shortest non-empty selected channel.
RowCountOnReturn ==
  (mpc = "viewed" /\ rows.exc = "none") =>
    Len(rows.val) = IF TableLens(sensors.val) = {} THEN 0 ELSE Min(TableLens(sensors.val))

\* C6: avg_pct is the mean of soil10_pct and soil20_pct rounded to one decimal
\* when both exist, the one that exists when only one does, null when neither.
C6_SoilAverage ==
  mpc = "viewed" =>
    LET a == soil.soil10_pct
        b == soil.soil20_pct
    IN /\ (a # Null /\ b # Null) =>
            /\ soil.avg_pct.k = "num"
            /\ 2 * soil.avg_pct.n - (a.n + b.n) \in {-1, 0, 1}
       /\ (a # Null /\ b = Null) => soil.avg_pct = a
       /\ (a = Null /\ b # Null) => soil.avg_pct = b
       /\ (a = Null /\ b = Null) => soil.avg_pct = Null

\* C6 witness: both depths report different values and the mean needs rounding.
C6_Witness ==
    /\ mpc = "viewed" /\ soil.soil10_pct # Null /\ soil.soil20_pct # Null
    /\ (soil.soil10_pct.n + soil.soil20_pct.n) % 2 = 1

\* C7 (as claimed): per-device error isolation.  When api_combined_all is
\* about to return, the response has one entry per allowed device in list
\* order, and the entry of a device is {device_sn, error} exactly when
\* fetching, mapping or summarizing that device failed.
C7_ErrorIsolation ==
  di = Len(ALLOWED_DEVICE_SNS) + 1 =>
    /\ Len(devices) = Len(ALLOWED_DEVICE_SNS)
    /\ \A i \in 1..Len(devices) :
         /\ devices[i].device_sn = ALLOWED_DEVICE_SNS[i]
         /\ devices[i].kind = "error" <=> trail[i] # "none"

\* C9 (as claimed): cache time-to-live.  A get_cached_data_for call on an entry
\* younger than the TTL returns the cached payload, issues no request and
\* leaves the entry alone; a call on an entry that is older, missing or
\* unreadable issues one request and leaves the entry holding the snapshot it
\* returns, stamped with the time of the call's return.
C9_CacheTTL ==
  last.sn # "none" =>
    IF last.fresh
    THEN /\ last.nreq = 0
         /\ last.ret = Ok(last.pre.data)
         /\ cache[last.sn] = last.pre
    ELSE /\ last.nreq = 1
         /\ last.ret.exc = "none"
         /\ cache[last.sn] = Entry(last.at, last.ret.val)

\* C8: stale-data degradation.  get_cached_data never raises; when the entry
\* is not fresh and the fetch raises, it returns the data of the cache file
\* if that is readable and the empty mapping otherwise, and the cache file is
\* what it was before the call.
C8_StaleDegradation ==
  slast.sn # "none" =>
    /\ slast.ret.exc = "none"
    /\ (~slast.fresh /\ slast.fetch = "raised") =>
         /\ slast.ret.val = (IF slast.pre.k = "entry" THEN slast.pre.data ELSE EmptyDict)
         /\ cache_file = slast.pre

\* C8 witness: the entry is expired, the third request is answered 429 like
\* the two before, and the call returned the non-empty snapshot cached before.
C8_Witness ==
    /\ slast.sn # "none" /\ ~slast.fresh /\ slast.fetch = "raised"
    /\ slast.nreq = max_retries
    /\ slast.pre.k = "entry" /\ slast.pre.data # EmptyDict
    /\ slast.ret = Ok(slast.pre.data)
    /\ slast.at - slast.pre.ts >= CACHE_TTL_MINUTES * 60

\* C10: an empty snapshot (no channel holds a reading) gives no rows, no
\* latest row, an all-null soil summary and fourteen null port values.
C10_EmptyInput ==
  (mpc = "viewed" /\ \A key \in DOMAIN sensors.val : sensors.val[key] = <<>>) =>
    /\ rows = Ok(<<>>)
    /\ latest = NoRow
    /\ soil = NullSoil
    /\ \A f \in DOMAIN ports : ports[f] = Null
    /\ DOMAIN ports = {"P1_vwc10_pct", "P1_temp10_c", "P1_ec10_us_cm",
                       "P2_vwc20_pct", "P2_temp20_c", "P2_ec20_us_cm", "P3_wp_kpa",
                       "P4_vwc10_pct", "P4_temp10_c", "P4_ec10_us_cm",
                       "P5_vwc20_pct", "P5_temp20_c", "P5_ec20_us_cm", "P6_wp_kpa"}

\* C10 witness: the views of the empty mapping have been computed.
C10_Witness ==
    mpc = "viewed" /\ sensors.val = EmptyDict /\ raw = <<>>

\* C11 (as claimed): _build_table_rows never raises on a snapshot of the
\* device mapper, and a reading whose value is null or not a number gives null
\* in its field of the row.
C11_TableNeverRaises ==
  (path = "multi" /\ mpc = "viewed") =>
    /\ rows.exc = "none"
    /\ \A i \in 1..Len(rows.val) :
         LET solar_s == TableSeries(sensors.val).solar
         IN (solar_s # <<>> /\ solar_s[i].value.k \in {"null", "bad"})
              => rows.val[i].solar_w_m2 = Null

\* the fourteen quick values: key, the channel it names, percent or float
PortKeys ==
  <<[f |-> "P1_vwc10_pct", ch |-> K_VWC10_P1, pct |-> TRUE],
    [f |-> "P1_temp10_c", ch |-> K_T10_P1, pct |-> FALSE],
    [f |-> "P1_ec10_us_cm", ch |-> K_EC10_P1, pct |-> FALSE],
    [f |-> "P2_vwc20_pct", ch |-> K_VWC20_P2, pct |-> TRUE],
    [f |-> "P2_temp20_c", ch |-> K_T20_P2, pct |-> FALSE],
    [f |-> "P2_ec20_us_cm", ch |-> K_EC20_P2, pct |-> FALSE],
    [f |-> "P3_wp_kpa", ch |-> K_MP_P3, pct |-> FALSE],
    [f |-> "P4_vwc10_pct", ch |-> K_VWC10_P4, pct |-> TRUE],
    [f |-> "P4_temp10_c", ch |-> K_T10_P4, pct |-> FALSE],
    [f |-> "P4_ec10_us_cm", ch |-> K_EC10_P4, pct |-> FALSE],
    [f |-> "P5_vwc20_pct", ch |-> K_VWC20_P5, pct |-> TRUE],
    [f |-> "P5_temp20_c", ch |-> K_T20_P5, pct |-> FALSE],
    [f |-> "P5_ec20_us_cm", ch |-> K_EC20_P5, pct |-> FALSE],
    [f |-> "P6_wp_kpa", ch |-> K_MP_P6, pct |-> FALSE]>>

\* the snapshot d with every channel but ch removed
Only(d, ch) == [key \in (DOMAIN d) \cap {ch} |-> d[key]]

\* the quick value of entry e read off the last reading of its own channel
QuickOf(d, e) ==
  IF e.ch \notin DOMAIN d \/ d[e.ch] = <<>> THEN Null
  ELSE LET v == d[e.ch][Len(d[e.ch])].value
       IN IF v = Null THEN Null
          ELSE IF e.pct THEN _to_pct(v).val
          ELSE IF v.k \in {"num", "nan", "inf"} THEN v
          ELSE Null

\* C12: per-port quick values.  The result has exactly the fourteen keys; each
\* is the conversion (percent for vwc, float for temp, ec and wp) of the last
\* reading of its own channel, null when the channel is absent or empty or the
\* last value is null or not a number, and it is the same when every other
\* channel is removed from the snapshot.
C12_PortQuickValues ==
  (path = "multi" /\ mpc = "viewed") =>
    /\ DOMAIN ports = {PortKeys[k].f : k \in 1..Len(PortKeys)}
    /\ \A k \in 1..Len(PortKeys) :
         LET e == PortKeys[k]
         IN /\ ports[e.f] = QuickOf(sensors.val, e)
            /\ ports[e.f] = get_port_quick_values_for_data(Only(sensors.val, e.ch))[e.f]
            /\ (e.ch \in DOMAIN sensors.val /\ sensors.val[e.ch] # <<>>
                  /\ sensors.val[e.ch][Len(sensors.val[e.ch])].value.k \in {"null", "bad"})
                 => ports[e.f] = Null

\* C12 witness: two moisture channels and a potential channel report, the
\* first and the last reading of (P1) differ, and a temperature key is null.
C12_Witness ==
    /\ path = "multi" /\ mpc = "viewed"
    /\ ports.P1_vwc10_pct # Null /\ ports.P2_vwc20_pct # Null /\ ports.P3_wp_kpa # Null
    /\ ports.P1_temp10_c = Null
    /\ Len(sensors.val[K_VWC10_P1]) >= 2
    /\ sensors.val[K_VWC10_P1][1].value # sensors.val[K_VWC10_P1][Len(sensors.val[K_VWC10_P1])].value

\* the time field of row r parses as a timestamp
Parses(r) == parse_iso(r.time) >= 0

\* C13 (as claimed): latest-row selection.  After __latest_row, an empty list
\* gives none; a non-empty list gives one of its rows: when a row's time
\* parses, a row that parses and whose timestamp no parseable row exceeds,
\* otherwise the last row of the list.
C13_LatestRow ==
  mpc = "picked" =>
    IF rows.val = <<>> THEN latest = NoRow
    ELSE /\ latest.k = "row"
         /\ \E i \in 1..Len(rows.val) : latest.row = rows.val[i]
         /\ (\E i \in 1..Len(rows.val) : Parses(rows.val[i])) =>
              /\ Parses(latest.row)
              /\ \A i \in 1..Len(rows.val) :
                   Parses(rows.val[i]) => parse_iso(rows.val[i].time) <= parse_iso(latest.row.time)
         /\ (\A i \in 1..Len(rows.val) : ~Parses(rows.val[i])) =>
              latest.row = rows.val[Len(rows.val)]

\* What does hold of __latest_row: when it returns, the result is as claimed.
LatestRowOnReturn ==
  (mpc = "picked" /\ latest.k # "raise") =>
    IF rows.val = <<>> THEN latest = NoRow
    ELSE /\ latest.k = "row"
         /\ \E i \in 1..Len(rows.val) : latest.row = rows.val[i]
         /\ (\E i \in 1..Len(rows.val) : Parses(rows.val[i])) =>
              /\ Parses(latest.row)
              /\ \A i \in 1..Len(rows.val) :
                   Parses(rows.val[i]) => parse_iso(rows.val[i].time) <= parse_iso(latest.row.time)
         /\ (\A i \in 1..Len(rows.val) : ~Parses(rows.val[i])) =>
              latest.row = rows.val[Len(rows.val)]

\* the channel of a family at a port: 1 and 4 are the 10 cm sensors, 2 and 5
\* the 20 cm sensors, 3 and 6 the matric-potential sensors; <<>> when the
\* family has no channel at the port
PortChannel(family, p) ==
  CASE family = "MOISTURE" /\ p = 1 -> K_VWC10_P1
    [] family = "MOISTURE" /\ p = 2 -> K_VWC20_P2
    [] family = "MOISTURE" /\ p = 4 -> K_VWC10_P4
    [] family = "MOISTURE" /\ p = 5 -> K_VWC20_P5
    [] family = "TEMPERATURE" /\ p = 1 -> K_T10_P1
    [] family = "TEMPERATURE" /\ p = 2 -> K_T20_P2
    [] family = "TEMPERATURE" /\ p = 4 -> K_T10_P4
    [] family = "TEMPERATURE" /\ p = 5 -> K_T20_P5
    [] family = "CONDUCTIVITY" /\ p = 1 -> K_EC10_P1
    [] family = "CONDUCTIVITY" /\ p = 2 -> K_EC20_P2
    [] family = "CONDUCTIVITY" /\ p = 4 -> K_EC10_P4
    [] family = "CONDUCTIVITY" /\ p = 5 -> K_EC20_P5
    [] family = "POTENTIAL" /\ p = 3 -> K_MP_P3
    [] family = "POTENTIAL" /\ p = 6 -> K_MP_P6
    [] OTHER -> <<>>

\* the port _series_port resolves for a series, 0 when it resolves none
ResolvedPort(s) ==
  LET p == _series_port(s)
  IN IF p.exc = "none" /\ p.val.k = "int" THEN p.val.n ELSE 0

\* C14 (as claimed): in the device mapper the resolved port of a series
\* decides its channel, whatever its position in the upstream list: after a
\* payload of one label is mapped, every series that resolves to a port of
\* its family is found on that port's channel.
C14_PortDecidesChannel ==
  (path = "multi" /\ Mapped /\ Len(raw) = 1) =>
    \A i \in 1..Len(raw[1].series_list) :
      LET s == raw[1].series_list[i]
          ch == PortChannel(Family(raw[1].label), ResolvedPort(s))
      IN ch # <<>> =>
           /\ ch \in DOMAIN sensors.val
           /\ sensors.val[ch] = __reading_list(s).val

\* the normalized readings of the series from position i on, concatenated
RECURSIVE ReadingsFrom(_, _)
ReadingsFrom(series_list, i) ==
  IF i > Len(series_list) THEN <<>>
  ELSE __reading_list(series_list[i]).val \o ReadingsFrom(series_list, i + 1)

\* t is the end of s
IsSuffix(t, s) == Len(t) <= Len(s) /\ SubSeq(s, Len(s) - Len(t) + 1, Len(s)) = t

\* C15 (as claimed): the moisture series that get no port channel (in the
\* device mapper: those after the fourth) accumulate, in upstream order, on a
\* fallback channel named by their upstream label.
C15_FallbackNamedByLabel ==
  (path = "multi" /\ Mapped /\ Len(raw) = 1 /\ __label_is_wc(raw[1].label)
     /\ Len(raw[1].series_list) > 4) =>
    /\ raw[1].label \in DOMAIN sensors.val
    /\ IsSuffix(ReadingsFrom(raw[1].series_list, 5), sensors.val[raw[1].label])

\* What does hold of the moisture fallback: the series after the fourth
\* accumulate in upstream order on the channel "Water Content".
FallbackOnWaterContent ==
  (path = "multi" /\ Mapped /\ Len(raw) = 1 /\ __label_is_wc(raw[1].label)
     /\ Len(raw[1].series_list) > 4) =>
    /\ K_WaterContent \in DOMAIN sensors.val
    /\ sensors.val[K_WaterContent] = ReadingsFrom(raw[1].series_list, 5)

\* the channel the device mapper gives the series at position i of a family,
\* <<>> beyond the family's port channels
IndexChannel(family, i) ==
  IF family = "POTENTIAL" THEN (IF i <= 2 THEN PortChannel(family, <<3, 6>>[i]) ELSE <<>>)
  ELSE IF i <= 4 THEN PortChannel(family, <<1, 2, 4, 5>>[i]) ELSE <<>>

\* C16 (as claimed): the device mapper never raises on a malformed series, and
\* the other series of the payload keep their channels: after a payload of one
\* port-mapped label, every series that is well formed is found on its
\* channel, with no readings when it has none.
C16_MapperNeverRaises ==
  (path = "multi" /\ mpc \in {"mapped", "viewed"}) =>
    /\ sensors.exc = "none"
    /\ (Len(raw) = 1 /\ Family(raw[1].label) # "OTHER") =>
         \A i \in 1..Len(raw[1].series_list) :
           LET s == raw[1].series_list[i]
               ch == IndexChannel(Family(raw[1].label), i)
           IN (ch # <<>> /\ __reading_list(s).exc = "none") =>
                /\ ch \in DOMAIN sensors.val
                /\ sensors.val[ch] = __reading_list(s).val

\* What does hold of the device mapper: when it returns, every series within
\* the port positions of its label is found on its channel.
SeriesKeptOnReturn ==
  (path = "multi" /\ Mapped /\ Len(raw) = 1 /\ Family(raw[1].label) # "OTHER") =>
    \A i \in 1..Len(raw[1].series_list) :
      LET s == raw[1].series_list[i]
          ch == IndexChannel(Family(raw[1].label), i)
      IN ch # <<>> =>
           /\ ch \in DOMAIN sensors.val
           /\ sensors.val[ch] = __reading_list(s).val

\* C17 (as claimed): the percent converter never raises; it returns null for a
\* null, non-numeric or non-finite input, and for a number v (given as a
\* number or a numeric string) v * 100 when v <= 1 and v when v > 1, rounded
\* to one decimal.
C17_PercentConverter ==
  cpc = "out" =>
    /\ cres.exc = "none"
    /\ cval.k \in {"null", "bad", "nan", "inf"} => cres.val = Null
    /\ cval.k \in {"num", "intstr", "numstr", "big"} =>
         /\ cres.val.k = "num"
         /\ IF cval.n <= 1000 /\ cval.k # "big" THEN cres.val.n = cval.n
            ELSE 100 * cres.val.n - cval.n \in -50..50

\* What does hold of the percent converter: the claim, for every input but an
\* integer beyond the float range.
PercentInFloatRange ==
  (cpc = "out" /\ cval.k # "big") =>
    /\ cres.exc = "none"
    /\ cval.k \in {"null", "bad", "nan", "inf"} => cres.val = Null
    /\ cval.k \in {"num", "intstr", "numstr"} =>
         /\ cres.val.k = "num"
         /\ IF cval.n <= 1000 THEN cres.val.n = cval.n
            ELSE 100 * cres.val.n - cval.n \in -50..50

\* C18 (as claimed): a failed fetch keeps the cached snapshot.  When a
\* get_cached_data_for call finds an entry that holds a non-empty snapshot (an
\* earlier fetch stored it) and its own fetch fails, it returns that snapshot
\* and the entry still holds it.
C18_FailedFetchKeepsSnapshot ==
  (last.sn # "none" /\ last.pre.k = "entry" /\ last.pre.data # EmptyDict
     /\ last.fetch = "failed") =>
    /\ last.ret = Ok(last.pre.data)
    /\ cache[last.sn].k = "entry"
    /\ cache[last.sn].data = last.pre.data

\* the labels _build_table_rows reads by their upstream name
TableLabels == {K_AirTemperature, K_Precipitation, K_SolarRadiation, K_VPD}

\* C19 (as claimed): the device mapper passes the table labels through: each
\* is classified OTHER and, when it is in the payload, the snapshot has a
\* channel of that name holding all its readings in upstream order.
C19_TableLabelsPassThrough ==
  (path = "multi" /\ Mapped) =>
    \A e \in 1..Len(raw) :
      raw[e].label \in TableLabels =>
        /\ Family(raw[e].label) = "OTHER"
        /\ raw[e].label \in DOMAIN sensors.val
        /\ sensors.val[raw[e].label] = ReadingsFrom(raw[e].series_list, 1)

\* What does hold of the table labels: the claim, for every one of them but
\* Precipitation.
OtherTableLabelsPassThrough ==
  (path = "multi" /\ Mapped) =>
    \A e \in 1..Len(raw) :
      raw[e].label \in TableLabels \ {K_Precipitation} =>
        /\ Family(raw[e].label) = "OTHER"
        /\ raw[e].label \in DOMAIN sensors.val
        /\ sensors.val[raw[e].label] = ReadingsFrom(raw[e].series_list, 1)

\* the first non-empty channel from position c on, <<>> when there is none
RECURSIVE FirstNonEmpty(_, _)
FirstNonEmpty(comp, c) ==
  IF c > Len(comp) THEN <<>>
  ELSE IF comp[c] # <<>> THEN comp[c]
  ELSE FirstNonEmpty(comp, c + 1)

\* the float of the value of reading i of channel s, null when there is none
FloatAt(s, i) ==
  IF s = <<>> \/ s[i].value = Null THEN Null ELSE PyFloat(s[i].value).val

\* C20: positional alignment.  In the rows _build_table_rows returns, row i
\* has the time of reading i of the base channel, the first non-empty channel
\* in the order temperature, precipitation, solar radiation, VPD, soil 10 cm,
\* soil 20 cm, and every other field is the conversion of reading i of its
\* own channel (null for an empty channel), whatever the times of the
\* readings are.
C20_PositionalAlignment ==
  (mpc = "viewed" /\ rows.exc = "none") =>
    LET t == TableSeries(sensors.val)
        base == FirstNonEmpty(<<t.temp, t.precip, t.solar, t.vpd, t.soil10, t.soil20>>, 1)
    IN \A i \in 1..Len(rows.val) :
         /\ rows.val[i].time = base[i].time
         /\ rows.val[i].temp_f = (IF t.temp = <<>> THEN Null ELSE _to_f(t.temp[i].value).val)
         /\ rows.val[i].precip_in = (IF t.precip = <<>> THEN Null ELSE _to_in(t.precip[i].value).val)
         /\ rows.val[i].solar_w_m2 = FloatAt(t.solar, i)
         /\ rows.val[i].vpd_kpa = FloatAt(t.vpd, i)
         /\ rows.val[i].soil10_pct = (IF t.soil10 = <<>> THEN Null ELSE _to_pct(t.soil10[i].value).val)
         /\ rows.val[i].soil20_pct = (IF t.soil20 = <<>> THEN Null ELSE _to_pct(t.soil20[i].value).val)

\* C20 witness: two rows were built on solar radiation as the base, whose
\* readings carry other times than the soil readings of the same index, and
\* the soil values of the two rows differ.
C20_Witness ==
    /\ mpc = "viewed" /\ rows.exc = "none" /\ Len(rows.val) >= 2
    /\ LET t == TableSeries(sensors.val)
       IN /\ t.temp = <<>> /\ t.precip = <<>> /\ t.solar # <<>> /\ t.soil10 # <<>>
          /\ t.solar[1].time # t.soil10[1].time
          /\ rows.val[1].time = t.solar[1].time
          /\ rows.val[1].soil10_pct # rows.val[2].soil10_pct

\* C21 (as claimed): soil-10cm fallback of the table builder.  Whenever the
\* 10 cm channel is absent or empty and the generic Water Content channel has
\* readings, soil10_pct of row i is the percent of reading i of the generic
\* channel, whether or not the 20 cm channel has data.
C21_Soil10Fallback ==
  (mpc = "viewed" /\ rows.exc = "none"
     /\ _series(sensors.val, K_VWC10) = <<>> /\ _series(sensors.val, K_WaterContent) # <<>>) =>
    \A i \in 1..Len(rows.val) :
      i <= Len(_series(sensors.val, K_WaterContent)) =>
        rows.val[i].soil10_pct = _to_pct(_series(sensors.val, K_WaterContent)[i].value).val

\* What does hold of the fallback: it is taken when the 20 cm channel is
\* absent or empty as well.
Soil10FallbackWithout20 ==
  (mpc = "viewed" /\ rows.exc = "none"
     /\ _series(sensors.val, K_VWC10) = <<>> /\ _series(sensors.val, K_VWC20) = <<>>
     /\ _series(sensors.val, K_WaterContent) # <<>>) =>
    \A i \in 1..Len(rows.val) :
      rows.val[i].soil10_pct = _to_pct(_series(sensors.val, K_WaterContent)[i].value).val

\* the 10 cm and 20 cm channels the soil summary reads
Soil10Channel(d) == IF _series(d, K_VWC10) # <<>> THEN _series(d, K_VWC10) ELSE _series(d, K_WaterContent)
Soil20Channel(d) == _series(d, K_VWC20)

\* the percent of the last reading of channel s, null for an empty channel
LastPct(s) == IF s = <<>> THEN Null ELSE _to_pct(s[Len(s)].value).val

\* C22 (as claimed): in the soil summary each depth is the percent conversion
\* of the last reading of its channel, so it is null when the last reading's
\* value is null or cannot be converted.
C22_LatestIsLastReading ==
  (path = "multi" /\ mpc = "viewed") =>
    /\ soil.soil10_pct = LastPct(Soil10Channel(sensors.val))
    /\ soil.soil20_pct = LastPct(Soil20Channel(sensors.val))

\* the percent of the last reading of s that converts, null when none does
RECURSIVE LastConvertiblePct(_, _)
LastConvertiblePct(s, i) ==
  IF i = 0 THEN Null
  ELSE IF _to_pct(s[i].value).val # Null THEN _to_pct(s[i].value).val
  ELSE LastConvertiblePct(s, i - 1)

\* What does hold of the soil summary: each depth is the percent of the last
\* reading of its channel that converts.
LatestIsLastConvertible ==
  (path = "multi" /\ mpc = "viewed") =>
    /\ soil.soil10_pct = LastConvertiblePct(Soil10Channel(sensors.val), Len(Soil10Channel(sensors.val)))
    /\ soil.soil20_pct = LastConvertiblePct(Soil20Channel(sensors.val), Len(Soil20Channel(sensors.val)))


\* the Reading the normalizer is said to give for a raw reading: the time
\* unchanged, the float of the value when float() returns one, the raw value
\* otherwise
ClaimedReading(r) ==
  [time |-> r.datetime,
   value |-> IF PyFloat(r.value).exc = "none" THEN PyFloat(r.value).val ELSE r.value]

\* a payload of one passthrough label with one series that has a readings list
OneListedSeries ==
  /\ path = "multi" /\ Len(raw) = 1 /\ Family(raw[1].label) = "OTHER"
  /\ Len(raw[1].series_list) = 1 /\ raw[1].series_list[1].rk = "list"

\* C23 (as claimed): the series normalizer gives exactly one Reading per raw
\* reading, in order, with the raw datetime as time and, as value, the float of
\* the raw value when it parses and the raw value itself otherwise.  Seen on
\* the channel of a passthrough label with a single series, which holds the
\* normalizer's output as it is.
C23_OneReadingPerRaw ==
  (OneListedSeries /\ mpc \in {"mapped", "viewed"}) =>
    /\ sensors.exc = "none"
    /\ raw[1].label \in DOMAIN sensors.val
    /\ sensors.val[raw[1].label] =
         [j \in 1..Len(raw[1].series_list[1].readings) |->
            ClaimedReading(raw[1].series_list[1].readings[j])]

\* What does hold of the normalizer: when it returns, its output is as claimed.
ReadingsOnReturn ==
  (OneListedSeries /\ Mapped) =>
    /\ raw[1].label \in DOMAIN sensors.val
    /\ sensors.val[raw[1].label] =
         [j \in 1..Len(raw[1].series_list[1].readings) |->
            ClaimedReading(raw[1].series_list[1].readings[j])]

\* C24 (as claimed): for a label classified OTHER the device mapper writes one
\* channel named by the raw label, which holds the normalized readings of all
\* the label's series, concatenated in upstream order.
C24_OtherLabelConcatenated ==
  (path = "multi" /\ mpc \in {"mapped", "viewed"}) =>
    \A e \in 1..Len(raw) :
      (Family(raw[e].label) = "OTHER"
         /\ \A o \in 1..Len(raw) : raw[o].label = raw[e].label => o = e) =>
        /\ sensors.exc = "none"
        /\ raw[e].label \in DOMAIN sensors.val
        /\ sensors.val[raw[e].label] = ReadingsFrom(raw[e].series_list, 1)

\* What does hold of the passthrough: when the mapper returns, the channel of
\* an OTHER label holds the concatenation.
OtherLabelConcatenatedOnReturn ==
  (path = "multi" /\ Mapped) =>
    \A e \in 1..Len(raw) :
      (Family(raw[e].label) = "OTHER"
         /\ \A o \in 1..Len(raw) : raw[o].label = raw[e].label => o = e) =>
        /\ raw[e].label \in DOMAIN sensors.val
        /\ sensors.val[raw[e].label] = ReadingsFrom(raw[e].series_list, 1)

\* some label field of s is a string in which the port pattern matches
HasLabelMatch(s) ==
  \E i \in 1..Len(LabelFields) :
    /\ LabelFields[i] \in DOMAIN s.labels
    /\ s.labels[LabelFields[i]].k = "str"
    /\ port_regex_search(s.labels[LabelFields[i]].s) >= 0

\* C25 (as claimed): _series_port is total.  For every series it returns an
\* integer or None and never raises, and it returns None exactly when no
\* direct field is coercible to an integer and no label field matches.
C25_SeriesPortTotal ==
  ppc = "out" =>
    /\ port.exc = "none"
    /\ port.val.k \in {"null", "int"}
    /\ port.val = Null <=> (~HasCoercible(series) /\ ~HasLabelMatch(series))

\* What does hold of the resolver: when it returns, it returns an integer or
\* None, and None exactly when nothing is coercible and nothing matches.
SeriesPortOnReturn ==
  (ppc = "out" /\ port.exc = "none") =>
    /\ port.val.k \in {"null", "int"}
    /\ port.val = Null <=> (~HasCoercible(series) /\ ~HasLabelMatch(series))

\* the port the nested step of the claimed cascade would give: the integer of
\* the port field of the first sub-object that has a coercible one, or None
RECURSIVE NestedPort(_, _)
NestedPort(s, i) ==
  IF i > Len(NestKeys) THEN Null
  ELSE IF NestKeys[i] \in DOMAIN s.nested
            /\ Coercible([direct |-> s.nested[NestKeys[i]]], DirectKeys[1])
       THEN PyInt(s.nested[NestKeys[i]][DirectKeys[1]]).val
       ELSE NestedPort(s, i + 1)

\* C26 (as claimed): the resolver applies the cascade direct field, nested
\* sub-object, label text: a series with no coercible direct field and a
\* sub-object that carries a port resolves to that port, whatever its label
\* fields say.
C26_NestedBeforeLabel ==
  (ppc = "out" /\ ~HasCoercible(series) /\ NestedPort(series, 1) # Null) =>
    port = Ok(NestedPort(series, 1))

\* What does hold of the resolver: the sub-objects of a series have no part in
\* the result.
NestedIgnored ==
  ppc = "out" => port = _series_port([series EXCEPT !.nested = NoFields])

\* C27: the rate-limit retry of fetch_fresh_data is bounded.  A call of
\* get_cached_data that fetches sends at most 3 requests, the first at once,
\* the second 1 s and the third 2 s after the one before; a request is followed
\* by another only when it was answered 429; a 429 on the third attempt
\* raises; any other HTTP error or network exception raises at once; the
\* first response with a body ends the loop.
C27_RetryBounded ==
  (slast.sn # "none" /\ ~slast.fresh) =>
    LET n == Len(slast.sent)
    IN /\ n \in 1..3
       /\ slast.sent[1] = slast.t0
       /\ n >= 2 => slast.sent[2] = slast.sent[1] + 1
       /\ n = 3 => slast.sent[3] = slast.sent[2] + 2
       /\ \A k \in 1..(n - 1) : slast.answers[k] = "r429"
       /\ slast.answers[n] = "r429" => (n = 3 /\ slast.exc = "Exception")
       /\ slast.answers[n] = "http" => slast.exc = "HTTPError"
       /\ slast.answers[n] = "neterr" => slast.exc = "ConnectionError"
       /\ slast.answers[n] = "ok" => (slast.exc = "none" /\ slast.fetch = "ok")
       /\ slast.at = slast.sent[n]

\* C27 witness: a fetch went through all three attempts, waiting 1 s and 2 s,
\* and the third answer was 429 again.
C27_Witness ==
  /\ slast.sn # "none" /\ ~slast.fresh
  /\ slast.answers = <<"r429", "r429", "r429">>
  /\ slast.sent = <<slast.t0, slast.t0 + 1, slast.t0 + 3>>
  /\ slast.exc = "Exception"

\* C28: per-device spacing on the multi-device path.  Whatever the fetches
\* answer, two requests sent upstream for the same device by successive
\* get_cached_data_for calls are at least 60 seconds apart.
C28_UpstreamSpacing ==
  \A i, j \in 1..Len(upstream) :
    (i < j /\ upstream[i].sn = upstream[j].sn) =>
      upstream[j].t - upstream[i].t >= 60

\* C28 witness: a request whose body the mapper could not take left the cache
\* entry as it was, and the next call for the device, made within the minute,
\* waited for the rate limit and sent its request 60 seconds after the first.
C28_Witness ==
  /\ Len(upstream) >= 2
  /\ upstream[Len(upstream)].sn = last.sn
  /\ last.nreq = 1 /\ last.t0 < last.at
  /\ \E i \in 1..(Len(upstream) - 1) :
       /\ upstream[i].sn = last.sn /\ upstream[i].answer = "malformed"
       /\ upstream[Len(upstream)].t = upstream[i].t + 60

\* C29 (as claimed): two requests for one device that are handled at the same
\* time, the cache entry being missing or expired when they arrive, send at
\* most one request upstream between them, and both return the same snapshot.
C29_ConcurrentSingleFetch ==
  (\A th \in Threads : tpc[th] = "done") =>
    /\ Len(upstream) <= 1
    /\ \A a, b \in Threads : tloc[a].ret = tloc[b].ret

\* What does hold of concurrent requests: each sends at most one request.
OneFetchPerRequest ==
  Len(upstream) <= Cardinality(Threads)

\* C30 (as claimed): on the single-device path the 1-minute cache keeps the
\* upstream calls for DEVICE_SN to one per minute: no two requests sent
\* upstream over a sequence of handler calls are less than 60 seconds apart.
C30_OnePerMinute ==
  \A i, j \in 1..Len(upstream) :
    i < j => upstream[j].t - upstream[i].t >= CACHE_TTL_MINUTES * 60

\* What does hold of the single-device cache: a request that was answered
\* with a body the mapper took is followed by no other for a minute.
OnePerMinuteAfterSuccess ==
  \A i, j \in 1..Len(upstream) :
    (i < j /\ upstream[i].answer = "ok") =>
      upstream[j].t - upstream[i].t >= CACHE_TTL_MINUTES * 60
====
